---- MODULE Spec2Model ----
(***************************************************************************)
(* The confirm operation of the payments core                              *)
(* (crates/router/src/core/payments/operations/payment_confirm.rs):        *)
(* get_trackers (two fetch waves, attempt versioning, reconciliation,      *)
(* surcharge validation) followed by update_trackers (status transition    *)
(* and the persistence wave), run by up to two invocations against one     *)
(* store holding one payment intent and its attempts.                      *)
(***************************************************************************)
EXTENDS Integers, Sequences, FiniteSets, TLC

\* ------------------------------------------------------------------ data

\* Option<T>: None is the empty tuple, Some(x) the one-element tuple.
None == << >>
Some(x) == << x >>
IsSome(o) == Len(o) = 1
IsNone(o) == Len(o) = 0
Unwrap(o) == o[1]
\* Option::unwrap_or
UnwrapOr(o, d) == IF IsSome(o) THEN o[1] ELSE d
\* Option::or
OrElse(a, b) == IF IsSome(a) THEN a ELSE b
OptionOf(S) == {None} \cup {Some(x) : x \in S}

\* Largest surcharge amount and tax amount drawn for requests, attempts and
\* the session cache.
MaxSurcharge == 1
MaxTax == 1
\* Largest attempt amount drawn for the stored attempt.
MaxAmount == 2

\* The two confirm invocations.
Procs == {"c1", "c2"}

\* storage_enums::IntentStatus, the variants the operation names.
IntentStatus ==
    {"Cancelled", "Succeeded", "Processing", "RequiresCapture",
     "RequiresMerchantAction", "RequiresCustomerAction",
     "RequiresPaymentMethod", "RequiresConfirmation", "Failed"}

\* A faulty list: RequiresCapture left out.
NotAllowedStatusesWithoutRequiresCapture ==
    {"Cancelled", "Succeeded", "Processing", "RequiresMerchantAction"}

\* A faulty list: RequiresMerchantAction left out.
NotAllowedStatusesWithoutRequiresMerchantAction ==
    {"Cancelled", "Succeeded", "Processing", "RequiresCapture"}

\* A faulty list: Processing left out.
NotAllowedStatusesWithoutProcessing ==
    {"Cancelled", "Succeeded", "RequiresCapture", "RequiresMerchantAction"}

\* The statuses handed to validate_payment_status_against_not_allowed_statuses.
NotAllowedStatuses ==
    {"Cancelled", "Succeeded", "Processing", "RequiresCapture",
     "RequiresMerchantAction"}

\* A faulty first arm: RequiresConfirmation left out.
AwaitingActionStatusesWithoutRequiresConfirmation ==
    {"RequiresCustomerAction", "RequiresMerchantAction", "RequiresPaymentMethod"}

\* The first arm of the match on payment_intent.status.
AwaitingActionStatuses ==
    {"RequiresCustomerAction", "RequiresMerchantAction",
     "RequiresPaymentMethod", "RequiresConfirmation"}

\* Option<FrmSuggestion>
FrmSuggestions == {"None", "FrmCancelTransaction", "FrmManualReview"}

\* api::PaymentMethodData as the surcharge validation sees it: absent, a
\* variant with no session-token payment method type (a card), or a variant
\* with one (a wallet).
PaymentMethodDatas == {"None", "Card", "Wallet"}

\* RequestSurchargeDetails { surcharge_amount, tax_amount: Option }
RequestSurchargeDetails ==
    [surcharge_amount : 0 .. MaxSurcharge, tax_amount : OptionOf(0 .. MaxTax)]

\* The (surcharge_amount, tax_amount) pairs a stored attempt carries.
AttemptSurcharges ==
    {[surcharge_amount |-> None, tax_amount |-> None]}
    \cup [surcharge_amount : {Some(s) : s \in 0 .. MaxSurcharge},
          tax_amount : OptionOf(0 .. MaxTax)]

\* What get_individual_surcharge_detail_from_redis answers.
RedisResults ==
    {[kind |-> "NotFound"], [kind |-> "Error"]}
    \cup {[kind |-> "Ok", surcharge_amount |-> s, tax_on_surcharge_amount |-> t] :
            s \in 0 .. MaxSurcharge, t \in 0 .. MaxTax}

\* ------------------------------------------------- surcharge (pure code)

\* PaymentMethodData::get_payment_method_type_if_session_token_type: Some for
\* the wallet variants that are paid through a session token, None otherwise.
get_payment_method_type_if_session_token_type(payment_method_data) ==
    IF payment_method_data = "Wallet" THEN Some("Wallet") ELSE None

\* RequestSurchargeDetails::is_surcharge_zero
is_surcharge_zero(request_surcharge_details) ==
    /\ request_surcharge_details.surcharge_amount = 0
    /\ UnwrapOr(request_surcharge_details.tax_amount, 0) = 0

\* SurchargeDetailsResponse::is_request_surcharge_matching
is_request_surcharge_matching(surcharge_details, request_surcharge_details) ==
    /\ request_surcharge_details.surcharge_amount = surcharge_details.surcharge_amount
    /\ UnwrapOr(request_surcharge_details.tax_amount, 0)
         = surcharge_details.tax_on_surcharge_amount

\* RequestSurchargeDetails::get_surcharge_details_object(original_amount)
get_surcharge_details_object(request_surcharge_details, original_amount) ==
    [surcharge_amount |-> request_surcharge_details.surcharge_amount,
     tax_on_surcharge_amount |-> UnwrapOr(request_surcharge_details.tax_amount, 0),
     final_amount |-> original_amount
                        + request_surcharge_details.surcharge_amount
                        + UnwrapOr(request_surcharge_details.tax_amount, 0)]

\* Whether the validation reads the session cache at all: only in the branch
\* for a session-token payment method on an attempt with no stored surcharge.
consults_redis(payment_attempt, request) ==
    /\ IsSome(request.surcharge_details)
    /\ request.payment_method_data # "None"
    /\ IsSome(get_payment_method_type_if_session_token_type(request.payment_method_data))
    /\ IsNone(payment_attempt.surcharge_amount)

\* A faulty comparison: the tax amounts are not compared.
attempt_surcharge_amount_differs(request_surcharge_details, payment_attempt) ==
    request_surcharge_details.surcharge_amount
        # Unwrap(payment_attempt.surcharge_amount)

\* The comparison with the surcharge stored on the attempt at payment create:
\* the amounts, and the taxes as the Options they are.
attempt_surcharge_differs(request_surcharge_details, payment_attempt) ==
    \/ request_surcharge_details.surcharge_amount
          # Unwrap(payment_attempt.surcharge_amount)
    \/ request_surcharge_details.tax_amount # payment_attempt.tax_amount

\* A faulty match: a cache hit accepts any declared surcharge.
session_surcharge_check_hit_accepted(redis, request_surcharge_details) ==
    CASE redis.kind = "Ok" -> "Ok"
      [] redis.kind = "NotFound" ->
           IF ~is_surcharge_zero(request_surcharge_details)
           THEN "InvalidRequestData"
           ELSE "Ok"
      [] OTHER -> "InternalServerError"

\* A faulty match: a cache miss accepts any declared surcharge.
session_surcharge_check_miss_accepted(redis, request_surcharge_details) ==
    CASE redis.kind = "Ok" ->
           IF ~is_request_surcharge_matching(redis, request_surcharge_details)
           THEN "InvalidRequestData"
           ELSE "Ok"
      [] redis.kind = "NotFound" -> "Ok"
      [] OTHER -> "InternalServerError"

\* A faulty match: a cache failure is taken for a cache miss.
session_surcharge_check_failure_as_miss(redis, request_surcharge_details) ==
    CASE redis.kind = "Ok" ->
           IF ~is_request_surcharge_matching(redis, request_surcharge_details)
           THEN "InvalidRequestData"
           ELSE "Ok"
      [] OTHER ->
           IF ~is_surcharge_zero(request_surcharge_details)
           THEN "InvalidRequestData"
           ELSE "Ok"

\* The match on what the session cache answered.
session_surcharge_check(redis, request_surcharge_details) ==
    CASE redis.kind = "Ok" ->
           IF ~is_request_surcharge_matching(redis, request_surcharge_details)
           THEN "InvalidRequestData"
           ELSE "Ok"
      [] redis.kind = "NotFound" ->
           IF ~is_surcharge_zero(request_surcharge_details)
           THEN "InvalidRequestData"
           ELSE "Ok"
      [] OTHER -> "InternalServerError"

\* A faulty validation: the arm for a declared surcharge without
\* payment-method data is missing.
validate_request_surcharge_details_without_missing_field_arm(payment_attempt, request, redis) ==
    IF IsSome(request.surcharge_details) /\ request.payment_method_data # "None"
    THEN LET request_surcharge_details == Unwrap(request.surcharge_details)
         IN  IF IsSome(get_payment_method_type_if_session_token_type(
                          request.payment_method_data))
             THEN IF IsSome(payment_attempt.surcharge_amount)
                  THEN IF attempt_surcharge_differs(request_surcharge_details,
                                                    payment_attempt)
                       THEN "InvalidRequestData"
                       ELSE "Ok"
                  ELSE session_surcharge_check(redis, request_surcharge_details)
             ELSE "Ok"
    ELSE "Ok"

\* PaymentConfirm::validate_request_surcharge_details_with_session_surcharge_details;
\* redis is what the session cache answers if it is asked.
validate_request_surcharge_details_with_session_surcharge_details(payment_attempt, request, redis) ==
    IF IsSome(request.surcharge_details) /\ request.payment_method_data # "None"
    THEN LET request_surcharge_details == Unwrap(request.surcharge_details)
         IN  IF IsSome(get_payment_method_type_if_session_token_type(
                          request.payment_method_data))
             THEN IF IsSome(payment_attempt.surcharge_amount)
                  THEN IF attempt_surcharge_differs(request_surcharge_details,
                                                    payment_attempt)
                       THEN "InvalidRequestData"
                       ELSE "Ok"
                  ELSE session_surcharge_check(redis, request_surcharge_details)
             ELSE "Ok"
    ELSE IF IsSome(request.surcharge_details)
         THEN "MissingRequiredField"
         ELSE "Ok"

\* A faulty resolution: the surcharge stored on the attempt comes before the
\* one the request declares.
get_surcharge_details_from_payment_attempt_or_payment_request(payment_request, payment_attempt) ==
    IF IsSome(payment_attempt.surcharge_amount)
    THEN Some([surcharge_amount |-> Unwrap(payment_attempt.surcharge_amount),
               tax_on_surcharge_amount |-> UnwrapOr(payment_attempt.tax_amount, 0),
               final_amount |-> payment_attempt.amount
                                  + Unwrap(payment_attempt.surcharge_amount)
                                  + UnwrapOr(payment_attempt.tax_amount, 0)])
    ELSE IF IsSome(payment_request.surcharge_details)
         THEN Some(get_surcharge_details_object(Unwrap(payment_request.surcharge_details),
                                                payment_attempt.amount))
         ELSE None

\* PaymentConfirm::get_surcharge_details_from_payment_request_or_payment_attempt
get_surcharge_details_from_payment_request_or_payment_attempt(payment_request, payment_attempt) ==
    IF IsSome(payment_request.surcharge_details)
    THEN Some(get_surcharge_details_object(Unwrap(payment_request.surcharge_details),
                                           payment_attempt.amount))
    ELSE IF IsSome(payment_attempt.surcharge_amount)
         THEN Some([surcharge_amount |-> Unwrap(payment_attempt.surcharge_amount),
                    tax_on_surcharge_amount |-> UnwrapOr(payment_attempt.tax_amount, 0),
                    final_amount |-> payment_attempt.amount
                                       + Unwrap(payment_attempt.surcharge_amount)
                                       + UnwrapOr(payment_attempt.tax_amount, 0)])
         ELSE None

\* A faulty capturable amount: the surcharge is forgotten.
authorized_amount_without_surcharge(surcharge_details, payment_attempt) ==
    payment_attempt.amount

\* update_trackers: the amount written as amount_capturable.
authorized_amount(surcharge_details, payment_attempt) ==
    IF IsSome(surcharge_details)
    THEN Unwrap(surcharge_details).final_amount
    ELSE payment_attempt.amount

\* ------------------------------------------------ transition (pure code)

\* Display of the fraud outcome's status and reason (to_string).
to_string(x) == << "to_string", x >>

\* Option<FraudCheck>: the status and the optional reason of the fraud outcome.
FrmMessages ==
    OptionOf([frm_status : {"Fraud"}, frm_reason : OptionOf({"stolen_card"})])

\* A faulty match: manual review falls through to the default arm.
frm_transition_without_manual_review(frm_suggestion, frm_message) ==
    CASE frm_suggestion = "FrmCancelTransaction" ->
           [intent_status |-> "Failed",
            attempt_status |-> "Failure",
            error_code |-> IF IsSome(frm_message)
                           THEN Some(Some(to_string(Unwrap(frm_message).frm_status)))
                           ELSE None,
            error_message |-> IF IsSome(frm_message)
                              THEN Some(IF IsSome(Unwrap(frm_message).frm_reason)
                                        THEN Some(to_string(Unwrap(Unwrap(frm_message).frm_reason)))
                                        ELSE None)
                              ELSE None]
      [] OTHER ->
           [intent_status |-> "Processing",
            attempt_status |-> "Pending",
            error_code |-> None,
            error_message |-> None]

\* A faulty match: the cancel arm drops the fraud outcome's reason.
frm_transition_without_reason(frm_suggestion, frm_message) ==
    CASE frm_suggestion = "FrmCancelTransaction" ->
           [intent_status |-> "Failed",
            attempt_status |-> "Failure",
            error_code |-> IF IsSome(frm_message)
                           THEN Some(Some(to_string(Unwrap(frm_message).frm_status)))
                           ELSE None,
            error_message |-> None]
      [] frm_suggestion = "FrmManualReview" ->
           [intent_status |-> "RequiresMerchantAction",
            attempt_status |-> "Unresolved",
            error_code |-> None,
            error_message |-> None]
      [] OTHER ->
           [intent_status |-> "Processing",
            attempt_status |-> "Pending",
            error_code |-> None,
            error_message |-> None]

\* update_trackers: the match on frm_suggestion. error_code and error_message
\* are Option<Option<String>>: None leaves the column alone.
frm_transition(frm_suggestion, frm_message) ==
    CASE frm_suggestion = "FrmCancelTransaction" ->
           [intent_status |-> "Failed",
            attempt_status |-> "Failure",
            error_code |-> IF IsSome(frm_message)
                           THEN Some(Some(to_string(Unwrap(frm_message).frm_status)))
                           ELSE None,
            error_message |-> IF IsSome(frm_message)
                              THEN Some(IF IsSome(Unwrap(frm_message).frm_reason)
                                        THEN Some(to_string(Unwrap(Unwrap(frm_message).frm_reason)))
                                        ELSE None)
                              ELSE None]
      [] frm_suggestion = "FrmManualReview" ->
           [intent_status |-> "RequiresMerchantAction",
            attempt_status |-> "Unresolved",
            error_code |-> None,
            error_message |-> None]
      [] OTHER ->
           [intent_status |-> "Processing",
            attempt_status |-> "Pending",
            error_code |-> None,
            error_message |-> None]

\* ----------------------------------------------------------------- state

VARIABLES
    db_payment_intent,    \* the store's payment intent row
    db_payment_attempts,  \* the store's attempt rows; attempt_id is the index
    db_addresses,         \* number of address rows (address_id 1 .. n)
    db_configs,           \* number of connector-credential configs inserted
    db_customer,          \* number of updates applied to the customer row
    pc,                   \* where each invocation stands
    request,              \* each invocation's api::PaymentsRequest
    fut,                  \* each invocation's spawned tasks
    payment_intent,       \* each invocation's payment_intent (Option)
    payment_attempt,      \* each invocation's payment_attempt (Option)
    surcharge_details,    \* payment_data.surcharge_details
    redis,                \* what the session cache answered this invocation
    upd,                  \* update_trackers: its inputs and the update it built
    result,               \* what the invocation returned
    writes,               \* the store writes each invocation has issued
    sv,                   \* the surcharge functions applied to drawn inputs
    vr,                   \* validate_request applied to drawn inputs
    rc,                   \* get_trackers' reconciliation: its inputs and what it made of them
    pl,                   \* intiate_payment_link_flow applied to drawn inputs
    pm_data               \* per call: what make_pm_data resolved, once it has run

vars ==
    << db_payment_intent, db_payment_attempts, db_addresses, db_configs,
       db_customer, pc, request, fut, payment_intent, payment_attempt,
       surcharge_details, redis, upd, result, writes, sv, vr, rc, pl, pm_data >>

db_vars ==
    << db_payment_intent, db_payment_attempts, db_addresses, db_configs,
       db_customer >>

\* The tasks of the three waves, in the order try_join! is handed them.
Stage1 == << "payment_intent_fut", "mandate_details_fut" >>
Stage2 ==
    << "payment_attempt_fut", "shipping_address_fut", "billing_address_fut",
       "config_update_fut" >>
Stage3 == << "update_payment_intent_fut", "update_payment_attempt_fut", "customer_fut" >>
Range(seq) == {seq[i] : i \in 1 .. Len(seq)}
Tasks == Range(Stage1) \cup Range(Stage2) \cup Range(Stage3)

\* A tokio task: not spawned, running, or finished with Ok(val) or Err(err).
Unspawned == [st |-> "unspawned", val |-> None, err |-> "none"]
Running == [st |-> "running", val |-> None, err |-> "none"]
Ok(v) == [st |-> "ok", val |-> Some(v), err |-> "none"]
Err(e) == [st |-> "err", val |-> None, err |-> e]

\* The request's client secret, as the intent's fulfillment deadline finds it.
ClientSecrets == {"fresh", "expired"}

\* The api::PaymentsRequest fields the modelled code reads.
RequestsOf(surcharges, pmds, shippings, billings, mcds, secrets) ==
    [surcharge_details : surcharges,
     payment_method_data : pmds,
     shipping : shippings,
     billing : billings,
     merchant_connector_details : mcds,
     client_secret : secrets]

\* Any request: one call at a time is drawn from these.
Requests ==
    RequestsOf(OptionOf({[surcharge_amount |-> MaxSurcharge, tax_amount |-> None]}),
               {"Card", "Wallet"},
               OptionOf({"address"}), OptionOf({"address"}), OptionOf({"creds"}),
               ClientSecrets)

\* The requests of two overlapping calls.
OverlappingRequests ==
    RequestsOf({None}, {"Card"}, {Some("address")}, {None}, {None}, ClientSecrets)

\* The requests of repeated calls that carry no address payload.
RepeatedRequests ==
    RequestsOf({None}, {"Card"}, {None}, {None}, {None}, ClientSecrets)

NoRequest ==
    [surcharge_details |-> None, payment_method_data |-> "None", shipping |-> None,
     billing |-> None, merchant_connector_details |-> None,
     client_secret |-> "fresh"]

NoUpdate ==
    [frm_suggestion |-> "None", frm_message |-> None, customer |-> FALSE,
     updated_customer |-> FALSE, intent_status |-> "none", attempt_status |-> "none",
     error_code |-> None, error_message |-> None, amount |-> 0,
     currency |-> "none", amount_capturable |-> 0]

NoSv ==
    [phase |-> "off", payment_attempt |-> None, request |-> NoRequest,
     redis |-> [kind |-> "NotFound"], validation |-> "none",
     surcharge_details |-> None, amount_capturable |-> 0]

\* The fields reconciliation merges from the request onto the intent and the
\* attempt.
IntentFields ==
    {"order_details", "setup_future_usage", "return_url",
     "allowed_payment_method_types", "connector_metadata", "feature_metadata",
     "metadata"}
AttemptFields ==
    {"browser_info", "payment_experience", "capture_method", "business_sub_label"}
MergedFields == IntentFields \cup AttemptFields

\* The request fields that are turned into serde values, by the request's
\* get_.._as_value methods or by Encode::encode_to_value.
EncodedFields ==
    {"order_details", "browser_info", "allowed_payment_method_types",
     "connector_metadata", "feature_metadata"}

\* Reconciliation has not been applied.
NoRc ==
    [phase |-> "off",
     request |-> [f \in MergedFields |-> None],
     stored |-> [f \in MergedFields |-> None],
     unencodable |-> {},
     card_data_valid |-> TRUE,
     payment_method |-> TRUE,
     payment_method_data |-> TRUE,
     payment_method_type |-> None,
     mandate_type |-> None,
     mandate_token |-> None,
     payment_token |-> None,
     currency |-> Some("USD"),
     intent_customer_id |-> None,
     request_customer_id |-> None,
     result |-> "none",
     merged |-> [f \in MergedFields |-> None],
     token |-> None]

\* intiate_payment_link_flow has not been applied.
NoPl ==
    [phase |-> "off", payment_intent |-> None, payment_link_found |-> TRUE,
     merchant_account |-> [return_url |-> None, payment_link_config |-> None,
                           publishable_key |-> None],
     result |-> "none", return_url |-> None]

\* validate_request has not been applied.
NoVr ==
    [phase |-> "off", request |-> << >>, merchant_id |-> "none",
     result |-> "none", payment_id |-> None, mandate_type |-> None,
     requeue |-> FALSE]

\* A stored attempt at intent creation.
NewAttemptRow(id, status, amount, surcharge) ==
    [attempt_id |-> id, status |-> status, amount |-> amount,
     currency |-> Some("USD"),
     surcharge_amount |-> surcharge.surcharge_amount,
     tax_amount |-> surcharge.tax_amount,
     error_code |-> None, error_message |-> None,
     amount_capturable |-> 0, version |-> 0]

\* The stored address identifiers and the address rows behind them.
StoredAddresses ==
    {[shipping |-> None, billing |-> None, rows |-> 0],
     [shipping |-> Some(1), billing |-> None, rows |-> 1]}

\* The invocations have not started.
InitProcs ==
    /\ pc = [p \in Procs |-> "idle"]
    /\ request = [p \in Procs |-> NoRequest]
    /\ fut = [p \in Procs |-> [t \in Tasks |-> Unspawned]]
    /\ payment_intent = [p \in Procs |-> None]
    /\ payment_attempt = [p \in Procs |-> None]
    /\ surcharge_details = [p \in Procs |-> None]
    /\ redis = [p \in Procs |-> None]
    /\ upd = [p \in Procs |-> NoUpdate]
    /\ result = [p \in Procs |-> "none"]
    /\ writes = [p \in Procs |-> {}]

\* The store after intent creation: one intent in any status, its one
\* attempt, both with the amount and the currency of the creation.
InitStoreIn(statuses, attempt_statuses, surcharges, addresses, currencies) ==
    \E status \in statuses, attempt_status \in attempt_statuses,
       amount \in {MaxAmount}, surcharge \in surcharges, addr \in addresses,
       currency \in currencies :
        /\ db_payment_intent =
             [status |-> status, active_attempt_id |-> 1, amount |-> amount,
              currency |-> currency,
              shipping_address_id |-> addr.shipping,
              billing_address_id |-> addr.billing, version |-> 0]
        /\ db_payment_attempts =
             << [NewAttemptRow(1, attempt_status, amount, surcharge)
                   EXCEPT !.currency = currency] >>
        /\ db_addresses = addr.rows
        /\ db_configs = 0
        /\ db_customer = 0

\* The same with the one currency.
InitStore(statuses, attempt_statuses, surcharges, addresses) ==
    InitStoreIn(statuses, attempt_statuses, surcharges, addresses, {Some("USD")})

Init ==
    /\ InitStore(IntentStatus, {"Started", "Failure"},
                 {[surcharge_amount |-> None, tax_amount |-> None],
                  [surcharge_amount |-> Some(MaxSurcharge), tax_amount |-> None]},
                 StoredAddresses)
    /\ InitProcs
    /\ sv = NoSv
    /\ vr = NoVr
    /\ rc = NoRc
    /\ pl = NoPl
    /\ pm_data = [p \in Procs |-> None]

\* ------------------------------------------------------------- the store

\* find_payment_attempt_by_payment_id_merchant_id_attempt_id
find_payment_attempt(attempt_id) == db_payment_attempts[attempt_id]

\* A faulty update: on a row that no longer matches, the row is read again
\* and the update applied to it.
row_matches_after_retry(this, stored) == TRUE

\* The store's conditional update: the row as the caller holds it still
\* matches the stored row.
row_matches(this, stored) == this.version = stored.version

\* PaymentAttemptUpdate::ConfirmUpdate applied to a row. An Option<Option<_>>
\* column is left alone by None and set by Some.
apply_confirm_update(row, update) ==
    [row EXCEPT !.status = update.attempt_status,
                !.amount = update.amount,
                !.currency = Some(update.currency),
                !.error_code = IF IsSome(update.error_code)
                               THEN Unwrap(update.error_code) ELSE @,
                !.error_message = IF IsSome(update.error_message)
                                  THEN Unwrap(update.error_message) ELSE @,
                !.amount_capturable = update.amount_capturable,
                !.version = @ + 1]

\* PaymentIntentUpdate::Update applied to the row.
apply_intent_update(row, update, shipping_address_id, billing_address_id) ==
    [row EXCEPT !.status = update.intent_status,
                !.amount = update.amount,
                !.currency = Some(update.currency),
                !.shipping_address_id = shipping_address_id,
                !.billing_address_id = billing_address_id,
                !.version = @ + 1]

\* The attempt a new attempt generation inserts for a retried payment.
new_attempt_generation(old, id) ==
    [old EXCEPT !.attempt_id = id, !.status = "Started", !.error_code = None,
                !.error_message = None, !.amount_capturable = 0, !.version = 0]

\* --------------------------------------------------------- get_trackers

\* A faulty join: only the first task of the wave is awaited.
FirstOk(p, stage) == fut[p][stage[1]].st = "ok"

\* try_join! has all its tasks' Ok values.
AllOk(p, stage) == \A t \in Range(stage) : fut[p][t].st = "ok"
Spawn(p, stage) ==
    [fut EXCEPT ![p] = [t \in Tasks |-> IF t \in Range(stage) THEN Running ELSE @[t]]]
Finish(p, err) ==
    /\ pc' = [pc EXCEPT ![p] = "done"]
    /\ result' = [result EXCEPT ![p] = err]
Wrote(p, what) == writes' = [writes EXCEPT ![p] = @ \cup {what}]

\* A confirm call arrives: Stage 1 spawns the intent fetch and the mandate
\* resolution.
get_trackers(p, req) ==
    /\ pc[p] = "idle"
    /\ pc' = [pc EXCEPT ![p] = "stage1"]
    /\ request' = [request EXCEPT ![p] = req]
    /\ fut' = Spawn(p, Stage1)
    /\ UNCHANGED << db_vars, payment_intent, payment_attempt, surcharge_details,
                    redis, upd, result, writes, sv, vr, rc, pl, pm_data >>

\* A task finishes without touching the store.
TaskDone(p, t, outcome) ==
    /\ fut[p][t].st = "running"
    /\ fut' = [fut EXCEPT ![p][t] = outcome]
    /\ UNCHANGED << db_vars, pc, request, payment_intent, payment_attempt,
                    surcharge_details, redis, upd, result, writes, sv, vr, rc, pl, pm_data >>

\* find_payment_intent_by_payment_id_merchant_id; any error is PaymentNotFound.
payment_intent_fut(p) ==
    \/ TaskDone(p, "payment_intent_fut", Ok(db_payment_intent))
    \/ TaskDone(p, "payment_intent_fut", Err("PaymentNotFound"))

\* helpers::get_token_pm_type_mandate_details
mandate_details_fut(p) ==
    \/ TaskDone(p, "mandate_details_fut", Ok("mandate_details"))
    \/ TaskDone(p, "mandate_details_fut", Err("MandateNotFound"))

\* A faulty join: it reports what the first task of the wave holds as its
\* error, whichever task failed.
try_join_err_of_first_task(p, at, stage) ==
    /\ pc[p] = at
    /\ \E t \in Range(stage) : fut[p][t].st = "err"
    /\ Finish(p, fut[p][stage[1]].err)
    /\ UNCHANGED << db_vars, request, fut, payment_intent, payment_attempt,
                    surcharge_details, redis, upd, writes, sv, vr, rc, pl, pm_data >>

\* A faulty join: when the persistence wave fails after the intent update was
\* applied, the intent row is written back to the status it had.
try_join_err_compensating(p, at, stage) ==
    /\ pc[p] = at
    /\ \E t \in Range(stage) :
         /\ fut[p][t].st = "err"
         /\ Finish(p, fut[p][t].err)
    /\ db_payment_intent' =
         IF at = "stage3" /\ fut[p]["update_payment_intent_fut"].st = "ok"
         THEN [db_payment_intent EXCEPT !.status = Unwrap(payment_intent[p]).status,
                                        !.version = @ + 1]
         ELSE db_payment_intent
    /\ UNCHANGED << db_payment_attempts, db_addresses, db_configs, db_customer,
                    request, fut, payment_intent, payment_attempt,
                    surcharge_details, redis, upd, writes, sv, vr, rc, pl, pm_data >>

\* A faulty join: the tasks of the wave that are still running are cancelled.
try_join_err_cancelling(p, at, stage) ==
    /\ pc[p] = at
    /\ \E t \in Range(stage) :
         /\ fut[p][t].st = "err"
         /\ Finish(p, fut[p][t].err)
    /\ fut' = [fut EXCEPT ![p] =
                 [t \in Tasks |-> IF t \in Range(stage) /\ @[t].st = "running"
                                  THEN Unspawned ELSE @[t]]]
    /\ UNCHANGED << db_vars, request, payment_intent, payment_attempt,
                    surcharge_details, redis, upd, writes, sv, vr, rc, pl, pm_data >>

\* A faulty join: it returns only when every task of the wave has returned
\* Ok, so that the error of a failed task is never taken up.
try_join_err_never_taken(p, at, stage) ==
    /\ pc[p] = at
    /\ AllOk(p, stage)
    /\ \E t \in Range(stage) :
         /\ fut[p][t].st = "err"
         /\ Finish(p, fut[p][t].err)
    /\ UNCHANGED << db_vars, request, fut, payment_intent, payment_attempt,
                    surcharge_details, redis, upd, writes, sv, vr, rc, pl, pm_data >>

\* try_join! returns the error of a task that has failed; the tasks still
\* running are detached, not cancelled.
try_join_err(p, at, stage) ==
    /\ pc[p] = at
    /\ \E t \in Range(stage) :
         /\ fut[p][t].st = "err"
         /\ Finish(p, fut[p][t].err)
    /\ UNCHANGED << db_vars, request, fut, payment_intent, payment_attempt,
                    surcharge_details, redis, upd, writes, sv, vr, rc, pl, pm_data >>

\* Stage 1 has joined: the checks between the join and Stage 2, ending the
\* call with err.
stage1_rejected(p, err) ==
    /\ pc[p] = "stage1"
    /\ AllOk(p, Stage1)
    /\ payment_intent' =
         [payment_intent EXCEPT ![p] = fut[p]["payment_intent_fut"].val]
    /\ Finish(p, err)
    /\ UNCHANGED << db_vars, request, fut, payment_attempt, surcharge_details,
                    redis, upd, writes, sv, vr, rc, pl, pm_data >>

\* helpers::validate_payment_status_against_not_allowed_statuses
validate_payment_status_against_not_allowed_statuses(status, not_allowed) ==
    status \notin not_allowed

\* helpers::validate_customer_access fails.
customer_access_denied(p) == stage1_rejected(p, "CustomerAccessDenied")

\* The status check fails (customer access having passed).
status_not_allowed(p) ==
    /\ pc[p] = "stage1"
    /\ AllOk(p, Stage1)
    /\ ~validate_payment_status_against_not_allowed_statuses(
           Unwrap(fut[p]["payment_intent_fut"].val).status, NotAllowedStatuses)
    /\ stage1_rejected(p, "InvalidState")

\* A faulty check: an expired client secret is let through.
authenticate_client_secret_unchecked(client_secret) == TRUE

\* helpers::authenticate_client_secret: the client secret has not expired
\* relative to the fulfillment deadline.
authenticate_client_secret(client_secret) == client_secret = "fresh"

\* helpers::authenticate_client_secret fails (the status check having passed).
client_secret_expired(p) ==
    /\ pc[p] = "stage1"
    /\ AllOk(p, Stage1)
    /\ validate_payment_status_against_not_allowed_statuses(
           Unwrap(fut[p]["payment_intent_fut"].val).status, NotAllowedStatuses)
    /\ ~authenticate_client_secret(request[p].client_secret)
    /\ stage1_rejected(p, "ClientSecretExpired")

\* All checks pass: Stage 2 spawns its four tasks.
stage2_spawn(p) ==
    /\ pc[p] = "stage1"
    /\ AllOk(p, Stage1)
    /\ validate_payment_status_against_not_allowed_statuses(
           Unwrap(fut[p]["payment_intent_fut"].val).status, NotAllowedStatuses)
    /\ authenticate_client_secret(request[p].client_secret)
    /\ payment_intent' =
         [payment_intent EXCEPT ![p] = fut[p]["payment_intent_fut"].val]
    /\ pc' = [pc EXCEPT ![p] = "stage2"]
    /\ fut' = Spawn(p, Stage2)
    /\ UNCHANGED << db_vars, request, payment_attempt, surcharge_details, redis,
                    upd, result, writes, sv, vr, rc, pl, pm_data >>

\* The attempt fetch, by the intent's active attempt id.
payment_attempt_fut(p) ==
    \/ TaskDone(p, "payment_attempt_fut",
                Ok(find_payment_attempt(Unwrap(payment_intent[p]).active_attempt_id)))
    \/ TaskDone(p, "payment_attempt_fut", Err("PaymentNotFound"))

\* helpers::create_or_find_address_for_payment_by_request: a stored address
\* id is looked up; with none, a request address creates a row.
create_or_find_address_for_payment_by_request(p, t, req_address, address_id) ==
    /\ fut[p][t].st = "running"
    /\ IF IsNone(address_id) /\ IsSome(req_address)
       THEN /\ db_addresses' = db_addresses + 1
            /\ fut' = [fut EXCEPT ![p][t] = Ok(Some(db_addresses + 1))]
            /\ Wrote(p, "address")
       ELSE /\ fut' = [fut EXCEPT ![p][t] = Ok(address_id)]
            /\ UNCHANGED << db_addresses, writes >>
    /\ UNCHANGED << db_payment_intent, db_payment_attempts, db_configs, db_customer,
                    pc, request, payment_intent, payment_attempt,
                    surcharge_details, redis, upd, result, sv, vr, rc, pl, pm_data >>

\* A faulty spawn: the intent's stored shipping address id is not passed on.
shipping_address_fut_without_stored_id(p) ==
    /\ IsSome(payment_intent[p])
    /\ create_or_find_address_for_payment_by_request(
           p, "shipping_address_fut", request[p].shipping, None)

shipping_address_fut(p) ==
    /\ IsSome(payment_intent[p])
    /\ create_or_find_address_for_payment_by_request(
           p, "shipping_address_fut", request[p].shipping,
           Unwrap(payment_intent[p]).shipping_address_id)

billing_address_fut(p) ==
    /\ IsSome(payment_intent[p])
    /\ create_or_find_address_for_payment_by_request(
           p, "billing_address_fut", request[p].billing,
           Unwrap(payment_intent[p]).billing_address_id)

\* helpers::insert_merchant_connector_creds_to_config, when the request
\* carries merchant_connector_details.
config_update_fut(p) ==
    /\ fut[p]["config_update_fut"].st = "running"
    /\ fut' = [fut EXCEPT ![p]["config_update_fut"] =
                 Ok(request[p].merchant_connector_details)]
    /\ IF IsSome(request[p].merchant_connector_details)
       THEN /\ db_configs' = db_configs + 1
            /\ Wrote(p, "config")
       ELSE UNCHANGED << db_configs, writes >>
    /\ UNCHANGED << db_payment_intent, db_payment_attempts, db_addresses,
                    db_customer, pc, request, payment_intent, payment_attempt,
                    surcharge_details, redis, upd, result, sv, vr, rc, pl, pm_data >>

\* Stage 2 has joined. The first arm of the match on the intent's status
\* keeps the fetched attempt.
stage2_join_same_attempt(p) ==
    /\ pc[p] = "stage2"
    /\ AllOk(p, Stage2)
    /\ Unwrap(payment_intent[p]).status \in AwaitingActionStatuses
    /\ payment_attempt' =
         [payment_attempt EXCEPT ![p] = fut[p]["payment_attempt_fut"].val]
    /\ pc' = [pc EXCEPT ![p] = "reconcile"]
    /\ UNCHANGED << db_vars, request, fut, payment_intent, surcharge_details,
                    redis, upd, result, writes, sv, vr, rc, pl, pm_data >>

\* The other arm goes on to helpers::get_attempt_type.
stage2_join_retry(p) ==
    /\ pc[p] = "stage2"
    /\ AllOk(p, Stage2)
    /\ Unwrap(payment_intent[p]).status \notin AwaitingActionStatuses
    /\ payment_attempt' =
         [payment_attempt EXCEPT ![p] = fut[p]["payment_attempt_fut"].val]
    /\ pc' = [pc EXCEPT ![p] = "get_attempt_type"]
    /\ UNCHANGED << db_vars, request, fut, payment_intent, surcharge_details,
                    redis, upd, result, writes, sv, vr, rc, pl, pm_data >>

\* get_attempt_type refuses the retry.
get_attempt_type_err(p) ==
    /\ pc[p] = "get_attempt_type"
    /\ Finish(p, "PreconditionFailed")
    /\ UNCHANGED << db_vars, request, fut, payment_intent, payment_attempt,
                    surcharge_details, redis, upd, writes, sv, vr, rc, pl, pm_data >>

\* AttemptType::SameOld: the pair is returned as it is.
attempt_type_same_old(p) ==
    /\ pc[p] = "get_attempt_type"
    /\ pc' = [pc EXCEPT ![p] = "reconcile"]
    /\ UNCHANGED << db_vars, request, fut, payment_intent, payment_attempt,
                    surcharge_details, redis, upd, result, writes, sv, vr, rc, pl, pm_data >>

\* AttemptType::New, first store call: the new attempt generation is inserted.
attempt_type_new_insert(p) ==
    /\ pc[p] = "get_attempt_type"
    /\ LET new == new_attempt_generation(Unwrap(payment_attempt[p]),
                                         Len(db_payment_attempts) + 1)
       IN  /\ db_payment_attempts' = Append(db_payment_attempts, new)
           /\ payment_attempt' = [payment_attempt EXCEPT ![p] = Some(new)]
    /\ Wrote(p, "attempt_insert")
    /\ pc' = [pc EXCEPT ![p] = "link_attempt"]
    /\ UNCHANGED << db_payment_intent, db_addresses, db_configs, db_customer,
                    request, fut, payment_intent, surcharge_details, redis, upd,
                    result, sv, vr, rc, pl, pm_data >>

\* AttemptType::New, second store call: the intent is updated to reference the
\* new attempt as its active attempt.
attempt_type_new_link(p) ==
    /\ pc[p] = "link_attempt"
    /\ Wrote(p, "intent_link")
    /\ IF row_matches(Unwrap(payment_intent[p]), db_payment_intent)
       THEN LET linked ==
                  [db_payment_intent EXCEPT
                     !.active_attempt_id = Unwrap(payment_attempt[p]).attempt_id,
                     !.version = @ + 1]
            IN  /\ db_payment_intent' = linked
                /\ payment_intent' = [payment_intent EXCEPT ![p] = Some(linked)]
                /\ pc' = [pc EXCEPT ![p] = "reconcile"]
                /\ UNCHANGED result
       ELSE /\ Finish(p, "PaymentNotFound")
            /\ UNCHANGED << db_payment_intent, payment_intent >>
    /\ UNCHANGED << db_payment_attempts, db_addresses, db_configs, db_customer,
                    request, fut, payment_attempt, surcharge_details, redis, upd,
                    sv, vr, rc, pl, pm_data >>

\* Reconciliation: one of the request validations before the surcharge check
\* fails (card data, payment method or token, currency, customer id).
reconcile_invalid(p) ==
    /\ pc[p] = "reconcile"
    /\ Finish(p, "ValidationError")
    /\ UNCHANGED << db_vars, request, fut, payment_intent, payment_attempt,
                    surcharge_details, redis, upd, writes, sv, vr, rc, pl, pm_data >>

\* The end of the reconciliation: the surcharge check, asking the session
\* cache when it has to, then the address ids and the surcharge resolution.
check_surcharge_and_resolve(p) ==
    /\ pc[p] = "reconcile"
    /\ \E r \in IF consults_redis(Unwrap(payment_attempt[p]), request[p])
                THEN {Some(x) : x \in RedisResults} ELSE {None} :
         LET checked ==
               validate_request_surcharge_details_with_session_surcharge_details(
                   Unwrap(payment_attempt[p]), request[p],
                   UnwrapOr(r, [kind |-> "NotFound"]))
         IN  /\ redis' = [redis EXCEPT ![p] = r]
             /\ IF checked = "Ok"
                THEN /\ payment_intent' =
                          [payment_intent EXCEPT ![p] =
                             Some([Unwrap(@) EXCEPT
                                     !.shipping_address_id =
                                         Unwrap(fut[p]["shipping_address_fut"].val),
                                     !.billing_address_id =
                                         Unwrap(fut[p]["billing_address_fut"].val)])]
                     /\ surcharge_details' =
                          [surcharge_details EXCEPT ![p] =
                             get_surcharge_details_from_payment_request_or_payment_attempt(
                                 request[p], Unwrap(payment_attempt[p]))]
                     /\ pc' = [pc EXCEPT ![p] = "make_pm_data"]
                     /\ UNCHANGED result
                ELSE /\ Finish(p, checked)
                     /\ UNCHANGED << payment_intent, surcharge_details >>
    /\ UNCHANGED << db_vars, request, fut, payment_attempt, upd, writes, sv, vr, pl, pm_data >>

\* Reconciliation when the validations before the surcharge check pass.
reconcile(p) ==
    /\ check_surcharge_and_resolve(p)
    /\ UNCHANGED rc

\* --------------------------------------------------------- make_pm_data

\* What helpers::make_pm_data can resolve for a payment: no payment-method
\* data, or the data of one payment method.
PaymentMethodData == {None, Some("card")}

\* A faulty payment-method step: it goes on without payment-method data.
pm_data_found_or_absent(payment_method_data) == "Ok"

\* utils::when(payment_method_data.is_none(), || Err(PaymentMethodNotFound))
pm_data_found(payment_method_data) ==
    IF IsNone(payment_method_data) THEN "PaymentMethodNotFound" ELSE "Ok"

\* Domain::make_pm_data, between get_trackers and update_trackers: the
\* helper resolves the payment-method data of the payment, and the confirm
\* ends with PaymentMethodNotFound when there is none.
make_pm_data(p, payment_method_data) ==
    /\ pc[p] = "make_pm_data"
    /\ pm_data' = [pm_data EXCEPT ![p] = Some(payment_method_data)]
    /\ IF pm_data_found(payment_method_data) = "Ok"
       THEN /\ pc' = [pc EXCEPT ![p] = "ready"]
            /\ UNCHANGED result
       ELSE Finish(p, pm_data_found(payment_method_data))
    /\ UNCHANGED << db_vars, request, fut, payment_intent, payment_attempt,
                    surcharge_details, redis, upd, writes, sv, vr, rc, pl >>

\* ------------------------------------------------------ update_trackers

\* A faulty amount: the amount with the surcharge and its tax.
payment_data_amount_with_surcharge(p) ==
    authorized_amount(surcharge_details[p], Unwrap(payment_attempt[p]))

\* payment_data.amount and payment_data.currency: the amount and the currency
\* of the attempt in use, the currency being required of it.
payment_data_amount(p) == Unwrap(payment_attempt[p]).amount
payment_data_currency(p) == Unwrap(Unwrap(payment_attempt[p]).currency)

\* update_trackers up to the spawn of the persistence wave: the transition
\* from frm_suggestion, the capturable amount, the two updates.
update_trackers(p, frm_suggestion, frm_message, customer, updated_customer) ==
    /\ pc[p] = "ready"
    /\ LET next == frm_transition(frm_suggestion, frm_message)
       IN  upd' = [upd EXCEPT ![p] =
                     [frm_suggestion |-> frm_suggestion,
                      frm_message |-> frm_message,
                      customer |-> customer,
                      updated_customer |-> updated_customer,
                      intent_status |-> next.intent_status,
                      attempt_status |-> next.attempt_status,
                      error_code |-> next.error_code,
                      error_message |-> next.error_message,
                      amount |-> payment_data_amount(p),
                      currency |-> payment_data_currency(p),
                      amount_capturable |->
                          authorized_amount(surcharge_details[p],
                                            Unwrap(payment_attempt[p]))]]
    /\ fut' = Spawn(p, Stage3)
    /\ pc' = [pc EXCEPT ![p] = "stage3"]
    /\ UNCHANGED << db_vars, request, payment_intent, payment_attempt,
                    surcharge_details, redis, result, writes, sv, vr, rc, pl, pm_data >>

\* A faulty choice: the attempt as Stage 2 fetched it.
m_payment_data_payment_attempt_as_fetched(p) ==
    Unwrap(fut[p]["payment_attempt_fut"].val)

\* The attempt handed to the attempt update: payment_data.payment_attempt.
m_payment_data_payment_attempt(p) == Unwrap(payment_attempt[p])

\* update_payment_attempt_with_attempt_id with the ConfirmUpdate; a row that
\* no longer matches is PaymentNotFound, any other store error is
\* InternalServerError.
update_payment_attempt_fut(p) ==
    /\ fut[p]["update_payment_attempt_fut"].st = "running"
    /\ Wrote(p, "attempt_update")
    /\ LET this == m_payment_data_payment_attempt(p)
           stored == db_payment_attempts[this.attempt_id]
       IN  \/ IF row_matches(this, stored)
              THEN LET updated == apply_confirm_update(stored, upd[p])
                   IN  /\ db_payment_attempts' =
                            [db_payment_attempts EXCEPT ![this.attempt_id] = updated]
                       /\ fut' = [fut EXCEPT ![p]["update_payment_attempt_fut"] =
                                    Ok(updated)]
              ELSE /\ fut' = [fut EXCEPT ![p]["update_payment_attempt_fut"] =
                                Err("PaymentNotFound")]
                   /\ UNCHANGED db_payment_attempts
           \/ /\ fut' = [fut EXCEPT ![p]["update_payment_attempt_fut"] =
                            Err("InternalServerError")]
              /\ UNCHANGED db_payment_attempts
    /\ UNCHANGED << db_payment_intent, db_addresses, db_configs, db_customer, pc,
                    request, payment_intent, payment_attempt, surcharge_details,
                    redis, upd, result, sv, vr, rc, pl, pm_data >>

\* update_payment_intent with PaymentIntentUpdate::Update, under the same
\* discipline.
update_payment_intent_fut(p) ==
    /\ fut[p]["update_payment_intent_fut"].st = "running"
    /\ Wrote(p, "intent_update")
    /\ LET this == Unwrap(payment_intent[p])
       IN  \/ IF row_matches(this, db_payment_intent)
              THEN LET updated ==
                         apply_intent_update(db_payment_intent, upd[p],
                                             this.shipping_address_id,
                                             this.billing_address_id)
                   IN  /\ db_payment_intent' = updated
                       /\ fut' = [fut EXCEPT ![p]["update_payment_intent_fut"] =
                                    Ok(updated)]
              ELSE /\ fut' = [fut EXCEPT ![p]["update_payment_intent_fut"] =
                                Err("PaymentNotFound")]
                   /\ UNCHANGED db_payment_intent
           \/ /\ fut' = [fut EXCEPT ![p]["update_payment_intent_fut"] =
                            Err("InternalServerError")]
              /\ UNCHANGED db_payment_intent
    /\ UNCHANGED << db_payment_attempts, db_addresses, db_configs, db_customer, pc,
                    request, payment_intent, payment_attempt, surcharge_details,
                    redis, upd, result, sv, vr, rc, pl, pm_data >>

\* A faulty test: the update payload alone decides.
customer_is_updated_by_payload(u) == u.updated_customer

\* updated_customer.zip(customer) is Some: the customer row is updated.
customer_is_updated(u) == u.updated_customer /\ u.customer

\* The customer task when it is the store update.
customer_fut_update(p) ==
    /\ fut[p]["customer_fut"].st = "running"
    /\ customer_is_updated(upd[p])
    /\ Wrote(p, "customer_update")
    /\ \/ /\ db_customer' = db_customer + 1
          /\ fut' = [fut EXCEPT ![p]["customer_fut"] = Ok("unit")]
       \/ /\ fut' = [fut EXCEPT ![p]["customer_fut"] = Err("InternalServerError")]
          /\ UNCHANGED db_customer
    /\ UNCHANGED << db_payment_intent, db_payment_attempts, db_addresses,
                    db_configs, pc, request, payment_intent, payment_attempt,
                    surcharge_details, redis, upd, result, sv, vr, rc, pl, pm_data >>

\* The customer task when it is the substitute that returns Ok(()).
customer_fut_noop(p) ==
    /\ ~customer_is_updated(upd[p])
    /\ TaskDone(p, "customer_fut", Ok("unit"))

\* A faulty join: one row update that succeeded is enough.
persisted_by_one_update(p) ==
    /\ \A t \in Range(Stage3) : fut[p][t].st \in {"ok", "err"}
    /\ \E t \in {"update_payment_intent_fut", "update_payment_attempt_fut"} :
         fut[p][t].st = "ok"

\* A faulty join: the customer task's result is not looked at.
persisted_without_customer(p) ==
    /\ fut[p]["update_payment_intent_fut"].st = "ok"
    /\ fut[p]["update_payment_attempt_fut"].st = "ok"
    /\ fut[p]["customer_fut"].st \in {"ok", "err"}

\* What the join of the persistence wave needs to return Ok.
persisted(p) == AllOk(p, Stage3)

\* The persistence wave has joined with three Ok: the returned rows replace
\* the aggregate's, and the aggregate is returned.
stage3_join_ok(p) ==
    /\ pc[p] = "stage3"
    /\ persisted(p)
    /\ payment_intent' =
         [payment_intent EXCEPT ![p] = fut[p]["update_payment_intent_fut"].val]
    /\ payment_attempt' =
         [payment_attempt EXCEPT ![p] = fut[p]["update_payment_attempt_fut"].val]
    /\ Finish(p, "Ok")
    /\ UNCHANGED << db_vars, request, fut, surcharge_details, redis, upd, writes,
                    sv, vr, rc, pl, pm_data >>

\* ------------------------------------------- the surcharge functions alone

\* The stored attempts, requests and cache answers the surcharge functions are
\* applied to.
SvInputs ==
    [phase : {"drawn"},
     payment_attempt :
        {Some(NewAttemptRow(1, "Started", amount, surcharge)) :
           amount \in 0 .. MaxAmount, surcharge \in AttemptSurcharges},
     request :
        RequestsOf(OptionOf(RequestSurchargeDetails), PaymentMethodDatas,
                   {None}, {None}, {None}, {"fresh"}),
     redis : RedisResults,
     validation : {"none"},
     surcharge_details : {None},
     amount_capturable : {0}]

\* get_trackers' call of the surcharge validation.
sv_validate ==
    /\ sv.phase = "drawn"
    /\ sv' = [sv EXCEPT
                !.phase = "validated",
                !.validation =
                    validate_request_surcharge_details_with_session_surcharge_details(
                        Unwrap(sv.payment_attempt), sv.request, sv.redis)]
    /\ UNCHANGED << db_vars, pc, request, fut, payment_intent, payment_attempt,
                    surcharge_details, redis, upd, result, writes, vr, rc, pl, pm_data >>

\* get_trackers' surcharge resolution after a validation that passed, and the
\* capturable amount update_trackers derives from it.
sv_resolve ==
    /\ sv.phase = "validated"
    /\ sv.validation = "Ok"
    /\ LET resolved ==
             get_surcharge_details_from_payment_request_or_payment_attempt(
                 sv.request, Unwrap(sv.payment_attempt))
       IN  sv' = [sv EXCEPT
                    !.phase = "resolved",
                    !.surcharge_details = resolved,
                    !.amount_capturable =
                        authorized_amount(resolved, Unwrap(sv.payment_attempt))]
    /\ UNCHANGED << db_vars, pc, request, fut, payment_intent, payment_attempt,
                    surcharge_details, redis, upd, result, writes, vr, rc, pl, pm_data >>

\* ---------------------------------------------- get_trackers' reconciliation

\* A value a request gives for a field; browser_info arrives as a serde value.
Requested(f) ==
    IF f = "browser_info" THEN << "value", << "request", f >> >> ELSE << "request", f >>

\* A value stored for a field at payment creation: a serde value for the
\* encoded fields, a string for the return url.
Stored(f) ==
    IF f \in EncodedFields THEN << "value", << "stored", f >> >>
    ELSE IF f = "return_url" THEN to_string(<< "stored", f >>)
    ELSE << "stored", f >>

\* serde_json::to_value; a serde value is its own encoding.
encode_to_value(x) == IF x[1] = "value" THEN x ELSE << "value", x >>

\* Option::map with each of the two conversions
map_encode_to_value(o) == IF IsSome(o) THEN Some(encode_to_value(Unwrap(o))) ELSE None
map_to_string(o) == IF IsSome(o) THEN Some(to_string(Unwrap(o))) ELSE None

\* A faulty merge: the request's field replaces the stored one even when the
\* request does not give it.
or_request_only(requested, stored) == requested

\* request.field.or(stored.field)
or(requested, stored) == OrElse(requested, stored)

\* helpers::validate_pm_or_token_given: without a token, and unless the
\* payment is of a recurring mandate, the request has to give both the
\* payment method and its data.
validate_pm_or_token_given(payment_method, payment_method_data, payment_method_type, mandate_type, token) ==
    IF /\ mandate_type # Some("RecurringMandate")
       /\ IsNone(token)
       /\ (~payment_method_data \/ ~payment_method)
    THEN "PaymentMethodNotFound" ELSE "Ok"

\* A faulty check: a customer id is never asked for.
validate_customer_id_never_mandatory(has_setup_future_usage, customer_id) == "Ok"

\* helpers::validate_customer_id_mandatory_cases
validate_customer_id_mandatory_cases(has_setup_future_usage, customer_id) ==
    IF has_setup_future_usage /\ IsNone(customer_id) THEN "InvalidRequest" ELSE "Ok"

\* The reconciliation of get_trackers between the second wave and the
\* surcharge check: the merges in their order, each conversion and
\* validation ending it with its error.
reconcile_request(r) ==
    LET failed(err) == [result |-> err, merged |-> NoRc.merged, token |-> None]
        encoded(f) == map_encode_to_value(r.request[f])
        fails(f) == IsSome(r.request[f]) /\ f \in r.unencodable
        browser_info == or(r.request["browser_info"], r.stored["browser_info"])
        token == OrElse(r.mandate_token, r.payment_token)
        customer_id == OrElse(r.intent_customer_id, r.request_customer_id)
        merged ==
            [f \in MergedFields |->
               CASE f = "browser_info" -> map_encode_to_value(browser_info)
                 [] f = "return_url" -> or(map_to_string(r.request[f]), r.stored[f])
                 [] f \in EncodedFields -> or(encoded(f), r.stored[f])
                 [] OTHER -> or(r.request[f], r.stored[f])]
    IN  CASE fails("order_details") -> failed("InternalServerError")
          [] IsSome(browser_info) /\ "browser_info" \in r.unencodable
               -> failed("InvalidDataValue")
          [] ~r.card_data_valid -> failed("InvalidDataValue")
          [] validate_pm_or_token_given(r.payment_method, r.payment_method_data,
                                        r.payment_method_type, r.mandate_type,
                                        token) # "Ok"
               -> failed("PaymentMethodNotFound")
          [] IsNone(r.currency) -> failed("MissingRequiredField")
          [] validate_customer_id_mandatory_cases(
                 IsSome(r.request["setup_future_usage"]), customer_id) # "Ok"
               -> failed("InvalidRequest")
          [] \/ fails("allowed_payment_method_types")
             \/ fails("connector_metadata")
             \/ fails("feature_metadata") -> failed("InternalServerError")
          [] OTHER -> [result |-> "Ok", merged |-> merged, token |-> token]

\* The reconciliation applied to drawn inputs.
rc_reconcile ==
    /\ rc.phase = "drawn"
    /\ LET reconciled == reconcile_request(rc)
       IN  rc' = [rc EXCEPT !.phase = "reconciled",
                            !.result = reconciled.result,
                            !.merged = reconciled.merged,
                            !.token = reconciled.token]
    /\ UNCHANGED << db_vars, pc, request, fut, payment_intent, payment_attempt,
                    surcharge_details, redis, upd, result, writes, sv, vr, pl, pm_data >>

\* The reconciliation of a call, on the inputs it reads, when one of its
\* conversions or validations fails: get_trackers returns the error.
reconcile_rejected(p, inputs) ==
    /\ pc[p] = "reconcile"
    /\ reconcile_request(inputs).result # "Ok"
    /\ rc' = [inputs EXCEPT !.phase = "reconciled",
                            !.result = reconcile_request(inputs).result]
    /\ Finish(p, reconcile_request(inputs).result)
    /\ UNCHANGED << db_vars, request, fut, payment_intent, payment_attempt,
                    surcharge_details, redis, upd, writes, sv, vr, pl, pm_data >>

\* The reconciliation of a call when they all pass: it goes on to the
\* surcharge check.
reconcile_accepted(p, inputs) ==
    /\ reconcile_request(inputs).result = "Ok"
    /\ rc' = [inputs EXCEPT !.phase = "reconciled",
                            !.result = "Ok",
                            !.merged = reconcile_request(inputs).merged,
                            !.token = reconcile_request(inputs).token]
    /\ check_surcharge_and_resolve(p)

\* What the validations of the reconciliation read, for an attempt of the
\* given currency: whether the request asks for setup-future-usage, the
\* customer ids, the card data, the payment method fields, the mandate type
\* and the tokens.
ReconcileInputs(currency) ==
    {[NoRc EXCEPT
        !.phase = "drawn",
        !.request = [f \in MergedFields |->
                       IF f = "setup_future_usage" /\ i.setup_future_usage
                       THEN Some(Requested(f)) ELSE None],
        !.card_data_valid = i.card_data_valid,
        !.payment_method = i.payment_method,
        !.payment_method_data = i.payment_method_data,
        !.payment_method_type = i.payment_method_type,
        !.mandate_type = i.mandate_type,
        !.mandate_token = i.mandate_token,
        !.payment_token = i.payment_token,
        !.currency = currency,
        !.intent_customer_id = i.intent_customer_id,
        !.request_customer_id = i.request_customer_id] :
       i \in [setup_future_usage : BOOLEAN,
              card_data_valid : BOOLEAN,
              payment_method : BOOLEAN,
              payment_method_data : BOOLEAN,
              payment_method_type : {None},
              mandate_type : OptionOf({"RecurringMandate"}),
              mandate_token : OptionOf({"token_mandate"}),
              payment_token : OptionOf({"token_attempt"}),
              intent_customer_id : OptionOf({"cus_1"}),
              request_customer_id : OptionOf({"cus_2"})]}

\* The requests and stored rows the merges are applied to: the fields a
\* request gives, the fields that are stored, and the fields of the request
\* that cannot be encoded.
MergeInputs(givens, kepts, brokens) ==
    {[NoRc EXCEPT
        !.phase = "drawn",
        !.request = [f \in MergedFields |->
                       IF f \in given THEN Some(Requested(f)) ELSE None],
        !.stored = [f \in MergedFields |->
                      IF f \in kept THEN Some(Stored(f)) ELSE None],
        !.unencodable = broken,
        !.intent_customer_id = Some("cus_1")] :
       given \in givens, kept \in kepts, broken \in brokens}

\* ------------------------------------------------ intiate_payment_link_flow

\* The statuses intiate_payment_link_flow hands to
\* validate_payment_status_against_not_allowed_statuses.
PaymentLinkNotAllowedStatuses ==
    {"Cancelled", "Succeeded", "Processing", "RequiresCapture",
     "RequiresMerchantAction"}

\* The stored intents the flow finds, or none.
PaymentLinkIntents ==
    OptionOf([payment_link_id : OptionOf({"plink_1"}),
              status : {"RequiresConfirmation", "Processing", "Failed"},
              return_url : OptionOf({Stored("return_url"),
                                     to_string(Requested("return_url"))}),
              order_details_parsable : BOOLEAN,
              currency : OptionOf({"USD"}),
              client_secret : OptionOf({"secret_1"})])

\* The merchant accounts the flow is called for.
PaymentLinkMerchantAccounts ==
    [return_url : OptionOf({"merchant_return_url"}),
     payment_link_config : OptionOf({"config", "malformed"}),
     publishable_key : OptionOf({"pk_1"})]

\* A faulty resolution: the merchant's return url is not looked at.
resolve_return_url_without_merchant_default(payment_intent_return_url, merchant_return_url) ==
    IF IsSome(payment_intent_return_url)
    THEN Ok(Unwrap(payment_intent_return_url))
    ELSE Err("MissingRequiredField")

\* The return url of the payment link: the intent's, else the merchant
\* account's, else MissingRequiredField.
resolve_return_url(payment_intent_return_url, merchant_return_url) ==
    IF IsSome(payment_intent_return_url)
    THEN Ok(Unwrap(payment_intent_return_url))
    ELSE IF IsSome(merchant_return_url)
    THEN Ok(Unwrap(merchant_return_url))
    ELSE Err("MissingRequiredField")

\* validate_sdk_requirements
validate_sdk_requirements(pub_key, currency, client_secret) ==
    IF IsNone(pub_key) \/ IsNone(currency) \/ IsNone(client_secret)
    THEN "MissingRequiredField" ELSE "Ok"

\* intiate_payment_link_flow: its lookups and checks in their order, each
\* ending the flow with its error, and the return url of the form it builds.
intiate_payment_link_flow(l) ==
    LET failed(err) == [result |-> err, return_url |-> None]
        intent == Unwrap(l.payment_intent)
        merchant == l.merchant_account
        return_url == resolve_return_url(intent.return_url, merchant.return_url)
    IN  CASE IsNone(l.payment_intent) -> failed("PaymentNotFound")
          [] IsNone(intent.payment_link_id) -> failed("PaymentLinkNotFound")
          [] ~validate_payment_status_against_not_allowed_statuses(
                  intent.status, PaymentLinkNotAllowedStatuses)
               -> failed("InvalidState")
          [] ~l.payment_link_found -> failed("PaymentLinkNotFound")
          [] merchant.payment_link_config = Some("malformed")
               -> failed("InvalidDataValue")
          [] ~intent.order_details_parsable -> failed("InvalidDataValue")
          [] return_url.st = "err" -> failed(return_url.err)
          [] validate_sdk_requirements(merchant.publishable_key, intent.currency,
                                       intent.client_secret) # "Ok"
               -> failed("MissingRequiredField")
          [] OTHER -> [result |-> "Ok", return_url |-> return_url.val]

\* The flow applied to drawn inputs.
pl_initiate ==
    /\ pl.phase = "drawn"
    /\ LET initiated == intiate_payment_link_flow(pl)
       IN  pl' = [pl EXCEPT !.phase = "initiated",
                            !.result = initiated.result,
                            !.return_url = initiated.return_url]
    /\ UNCHANGED << db_vars, pc, request, fut, payment_intent, payment_attempt,
                    surcharge_details, redis, upd, result, writes, sv, vr, rc,
                    pm_data >>

\* The requests and stored rows the return url is reconciled from.
ReturnUrlInputs ==
    MergeInputs({{}, {"return_url"}}, {{}, {"return_url"}}, {{}})

\* ------------------------------------------------- validate_request alone

\* The fields of api::PaymentsRequest that validate_request reads.
ValidatedRequests ==
    [customer_id : OptionOf({"cus_1"}),
     customer : OptionOf({"cus_1", "cus_2"}),
     payment_id : OptionOf({[type |-> "PaymentIntentId", id |-> "pay_1"],
                            [type |-> "PaymentIntentId", id |-> "pay_overlong"],
                            [type |-> "ConnectorTransactionId", id |-> "txn_1"]}),
     merchant_id : OptionOf({"merchant_1", "merchant_2"}),
     payment_method : BOOLEAN,
     payment_method_data : BOOLEAN,
     mandate_data : BOOLEAN,
     mandate_id : BOOLEAN,
     retry_action : OptionOf({"Requeue", "ManualRetry"})]

\* The merchant accounts a request is validated for.
MerchantIds == {"merchant_1"}

\* helpers::validate_customer_details_in_request: the customer id given twice
\* has to be the same.
validate_customer_details_in_request(req) ==
    IF IsSome(req.customer_id) /\ IsSome(req.customer)
       /\ req.customer_id # req.customer
    THEN "PreconditionFailed" ELSE "Ok"

\* PaymentIdType::get_payment_intent_id, its error changed to PaymentNotFound.
get_payment_intent_id(id_type) ==
    IF id_type.type = "PaymentIntentId" THEN Ok(id_type.id) ELSE Err("PaymentNotFound")

\* helpers::validate_merchant_id, its error changed to InvalidDataFormat.
validate_merchant_id(merchant_id, request_merchant_id) ==
    IF IsSome(request_merchant_id) /\ Unwrap(request_merchant_id) # merchant_id
    THEN "InvalidDataFormat" ELSE "Ok"

\* helpers::validate_payment_method_fields_present: payment method data needs
\* a payment method.
validate_payment_method_fields_present(req) ==
    IF req.payment_method_data /\ ~req.payment_method
    THEN "MissingRequiredField" ELSE "Ok"

\* helpers::validate_mandate: at most one of mandate_data and mandate_id, and
\* the mandate type that one gives.
validate_mandate(req) ==
    CASE req.mandate_data /\ req.mandate_id -> Err("PreconditionFailed")
      [] req.mandate_data -> Ok(Some("NewMandate"))
      [] req.mandate_id -> Ok(Some("RecurringMandate"))
      [] OTHER -> Ok(None)

\* A faulty choice of id: one is generated whether or not one is given.
get_or_generate_id_ignoring_given(given_payment_id) == Ok("pay_generated")

\* utils::get_or_generate_id: the given id if there is one and it is
\* well-formed, a generated one with none given.
get_or_generate_id(given_payment_id) ==
    IF IsNone(given_payment_id) THEN Ok("pay_generated")
    ELSE IF Unwrap(given_payment_id) = "pay_overlong" THEN Err("InvalidDataFormat")
    ELSE Ok(Unwrap(given_payment_id))

\* matches!(request.retry_action, Some(RetryAction::Requeue))
requeue(retry_action) == retry_action = Some("Requeue")

\* validate_request: the checks in their order, each ending the validation
\* with its error, and the ValidateResult.
validate_request(req, merchant_id) ==
    LET failed(err) == [result |-> err, payment_id |-> None,
                        mandate_type |-> None, requeue |-> FALSE]
        given == IF IsSome(req.payment_id)
                 THEN get_payment_intent_id(Unwrap(req.payment_id))
                 ELSE Ok("none")
        given_payment_id == IF IsSome(req.payment_id) /\ given.st = "ok"
                            THEN given.val ELSE None
        mandate_type == validate_mandate(req)
        payment_id == get_or_generate_id(given_payment_id)
    IN  CASE validate_customer_details_in_request(req) # "Ok"
               -> failed(validate_customer_details_in_request(req))
          [] given.st = "err" -> failed(given.err)
          [] validate_merchant_id(merchant_id, req.merchant_id) # "Ok"
               -> failed(validate_merchant_id(merchant_id, req.merchant_id))
          [] validate_payment_method_fields_present(req) # "Ok"
               -> failed(validate_payment_method_fields_present(req))
          [] mandate_type.st = "err" -> failed(mandate_type.err)
          [] payment_id.st = "err" -> failed(payment_id.err)
          [] OTHER -> [result |-> "Ok",
                       payment_id |-> payment_id.val,
                       mandate_type |-> Unwrap(mandate_type.val),
                       requeue |-> requeue(req.retry_action)]

\* validate_request applied to a drawn request.
vr_validate ==
    /\ vr.phase = "drawn"
    /\ LET validated == validate_request(vr.request, vr.merchant_id)
       IN  vr' = [vr EXCEPT !.phase = "validated",
                            !.result = validated.result,
                            !.payment_id = validated.payment_id,
                            !.mandate_type = validated.mandate_type,
                            !.requeue = validated.requeue]
    /\ UNCHANGED << db_vars, pc, request, fut, payment_intent, payment_attempt,
                    surcharge_details, redis, upd, result, writes, sv, rc, pl, pm_data >>

\* --------------------------------------------------------- specification

\* No call has arrived yet.
NoCallYet == \A q \in Procs : pc[q] = "idle"

\* The steps of a call from its arrival to the reconciliation.
Fetch(p) ==
    \/ payment_intent_fut(p)
    \/ mandate_details_fut(p)
    \/ try_join_err(p, "stage1", Stage1)
    \/ customer_access_denied(p)
    \/ status_not_allowed(p)
    \/ client_secret_expired(p)
    \/ stage2_spawn(p)
    \/ payment_attempt_fut(p)
    \/ shipping_address_fut(p)
    \/ billing_address_fut(p)
    \/ config_update_fut(p)
    \/ try_join_err(p, "stage2", Stage2)
    \/ stage2_join_same_attempt(p)
    \/ stage2_join_retry(p)
    \/ get_attempt_type_err(p)
    \/ attempt_type_same_old(p)
    \/ attempt_type_new_insert(p)
    \/ attempt_type_new_link(p)

\* The steps of the persistence wave.
Persist(p) ==
    \/ update_payment_attempt_fut(p)
    \/ update_payment_intent_fut(p)
    \/ customer_fut_update(p)
    \/ customer_fut_noop(p)
    \/ try_join_err(p, "stage3", Stage3)
    \/ stage3_join_ok(p)

\* The steps of a call between its arrival and update_trackers, and the
\* persistence wave.
Step(p) ==
    \/ Fetch(p)
    \/ reconcile_invalid(p)
    \/ reconcile(p)
    \/ \E payment_method_data \in PaymentMethodData :
         make_pm_data(p, payment_method_data)
    \/ Persist(p)

\* One call, with any request and any outcome signal.
Next ==
    \E p \in Procs :
        \/ (NoCallYet /\ p = "c1" /\ \E req \in Requests : get_trackers(p, req))
        \/ Step(p)
        \/ \E frm_suggestion \in FrmSuggestions, frm_message \in FrmMessages,
              customer \in BOOLEAN, updated_customer \in BOOLEAN :
             update_trackers(p, frm_suggestion, frm_message, customer, updated_customer)

Spec == Init /\ [][Next]_vars

\* Two calls for the same payment, overlapping or one after the other.
InitOverlap ==
    /\ InitStore({"RequiresConfirmation", "Failed"}, {"Failure"},
                 {[surcharge_amount |-> None, tax_amount |-> None]},
                 {[shipping |-> None, billing |-> None, rows |-> 0]})
    /\ InitProcs
    /\ sv = NoSv
    /\ vr = NoVr
    /\ rc = NoRc
    /\ pl = NoPl
    /\ pm_data = [p \in Procs |-> None]

NextOverlap ==
    \E p \in Procs :
        \/ \E req \in OverlappingRequests : get_trackers(p, req)
        \/ Step(p)
        \/ \E frm_suggestion \in {"None", "FrmCancelTransaction"},
              customer \in BOOLEAN :
             update_trackers(p, frm_suggestion, None, customer, customer)

SpecOverlap == InitOverlap /\ [][NextOverlap]_vars

\* Repeated calls without an address payload: a call arrives when no other
\* call is under way.
InitRepeat ==
    /\ InitStore({"RequiresConfirmation", "Failed"}, {"Failure"},
                 {[surcharge_amount |-> None, tax_amount |-> None]},
                 StoredAddresses)
    /\ InitProcs
    /\ sv = NoSv
    /\ vr = NoVr
    /\ rc = NoRc
    /\ pl = NoPl
    /\ pm_data = [p \in Procs |-> None]

NextRepeat ==
    \E p \in Procs :
        \/ /\ \A q \in Procs : pc[q] \in {"idle", "done"}
           /\ \E req \in RepeatedRequests : get_trackers(p, req)
        \/ Step(p)
        \/ \E frm_suggestion \in FrmSuggestions, customer \in BOOLEAN :
             update_trackers(p, frm_suggestion, None, customer, customer)

SpecRepeat == InitRepeat /\ [][NextRepeat]_vars

\* The surcharge validation and resolution applied to every drawn input.
InitSurcharge ==
    /\ InitStore({"RequiresConfirmation"}, {"Started"},
                 {[surcharge_amount |-> None, tax_amount |-> None]},
                 {[shipping |-> None, billing |-> None, rows |-> 0]})
    /\ InitProcs
    /\ sv \in SvInputs
    /\ vr = NoVr
    /\ rc = NoRc
    /\ pl = NoPl
    /\ pm_data = [p \in Procs |-> None]

NextSurcharge == sv_validate \/ sv_resolve

SpecSurcharge == InitSurcharge /\ [][NextSurcharge]_vars

\* The merges of the reconciliation applied to every drawn input: a request
\* gives any of the fields; stored are none, one or all of them; at most one
\* of the request's fields cannot be encoded.
InitMerge ==
    /\ InitStore({"RequiresConfirmation"}, {"Started"},
                 {[surcharge_amount |-> None, tax_amount |-> None]},
                 {[shipping |-> None, billing |-> None, rows |-> 0]})
    /\ InitProcs
    /\ sv = NoSv
    /\ vr = NoVr
    /\ rc \in MergeInputs(SUBSET MergedFields,
                          {{}, MergedFields} \cup {{f} : f \in MergedFields},
                          {{}} \cup {{f} : f \in EncodedFields})
    /\ pl = NoPl
    /\ pm_data = [p \in Procs |-> None]

NextMerge == rc_reconcile

SpecMerge == InitMerge /\ [][NextMerge]_vars

\* What the reconciliation of a call reads, the currency being that of the
\* attempt in use.
ReconcileInputsOf(p) ==
    IF pc[p] = "reconcile"
    THEN ReconcileInputs(Unwrap(payment_attempt[p]).currency)
    ELSE {}

\* One call whose reconciliation validates what it reads; the attempt may
\* have no currency.
InitReconcile ==
    /\ InitStoreIn({"RequiresConfirmation", "Failed", "Processing"}, {"Failure"},
                   {[surcharge_amount |-> None, tax_amount |-> None],
                    [surcharge_amount |-> Some(MaxSurcharge), tax_amount |-> None]},
                   {[shipping |-> None, billing |-> None, rows |-> 0]},
                   OptionOf({"USD"}))
    /\ InitProcs
    /\ sv = NoSv
    /\ vr = NoVr
    /\ rc = NoRc
    /\ pl = NoPl
    /\ pm_data = [p \in Procs |-> None]

NextReconcile ==
    \E p \in Procs :
        \/ (NoCallYet /\ p = "c1" /\ \E req \in RepeatedRequests : get_trackers(p, req))
        \/ Fetch(p)
        \/ \E inputs \in ReconcileInputsOf(p) : reconcile_rejected(p, inputs)
        \/ \E inputs \in ReconcileInputsOf(p) : reconcile_accepted(p, inputs)
        \/ \E payment_method_data \in PaymentMethodData :
             make_pm_data(p, payment_method_data)
        \/ Persist(p)
        \/ \E frm_suggestion \in {"None", "FrmCancelTransaction"},
              customer \in BOOLEAN :
             update_trackers(p, frm_suggestion, None, customer, customer)

SpecReconcile == InitReconcile /\ [][NextReconcile]_vars

\* One call under fair scheduling. Every step of a call is a store or cache
\* call returning, a spawned task running, a join taking up what its tasks
\* returned, or the code between them, update_trackers being called once
\* the payment-method step has passed: a step that stays possible is taken.
InitLive ==
    /\ InitStore({"RequiresConfirmation", "Failed", "Processing"}, {"Failure"},
                 {[surcharge_amount |-> None, tax_amount |-> None]},
                 {[shipping |-> None, billing |-> None, rows |-> 0]})
    /\ InitProcs
    /\ sv = NoSv
    /\ vr = NoVr
    /\ rc = NoRc
    /\ pl = NoPl
    /\ pm_data = [p \in Procs |-> None]

\* The steps of a call after its arrival.
LiveStep(p) ==
    \/ Step(p)
    \/ \E frm_suggestion \in {"None", "FrmCancelTransaction"}, customer \in BOOLEAN :
         update_trackers(p, frm_suggestion, None, customer, customer)

NextLive ==
    \E p \in Procs :
        \/ (NoCallYet /\ p = "c1" /\ \E req \in Requests : get_trackers(p, req))
        \/ LiveStep(p)

SpecLive ==
    /\ InitLive
    /\ [][NextLive]_vars
    /\ \A p \in Procs : WF_vars(LiveStep(p))

\* The return url as the confirm reconciles it and as the payment link flow
\* resolves it.
InitReturnUrl ==
    /\ InitStore({"RequiresConfirmation"}, {"Started"},
                 {[surcharge_amount |-> None, tax_amount |-> None]},
                 {[shipping |-> None, billing |-> None, rows |-> 0]})
    /\ InitProcs
    /\ sv = NoSv
    /\ vr = NoVr
    /\ rc \in ReturnUrlInputs
    /\ \E intent \in PaymentLinkIntents, found \in BOOLEAN,
          merchant \in PaymentLinkMerchantAccounts :
         pl = [NoPl EXCEPT !.phase = "drawn", !.payment_intent = intent,
                           !.payment_link_found = found,
                           !.merchant_account = merchant]
    /\ pm_data = [p \in Procs |-> None]

NextReturnUrl == rc_reconcile \/ pl_initiate

SpecReturnUrl == InitReturnUrl /\ [][NextReturnUrl]_vars

\* validate_request applied to every drawn request.
InitValidate ==
    /\ InitStore({"RequiresConfirmation"}, {"Started"},
                 {[surcharge_amount |-> None, tax_amount |-> None]},
                 {[shipping |-> None, billing |-> None, rows |-> 0]})
    /\ InitProcs
    /\ sv = NoSv
    /\ \E req \in ValidatedRequests, merchant_id \in MerchantIds :
         vr = [NoVr EXCEPT !.phase = "drawn", !.request = req,
                           !.merchant_id = merchant_id]
    /\ rc = NoRc
    /\ pl = NoPl
    /\ pm_data = [p \in Procs |-> None]

NextValidate == vr_validate

SpecValidate == InitValidate /\ [][NextValidate]_vars

\* ------------------------------------------------------------ properties

\* What an invocation's intent fetch returned.
fetched_intent(p) == Unwrap(fut[p]["payment_intent_fut"].val)
has_fetched_intent(p) == fut[p]["payment_intent_fut"].st = "ok"

\* C1: a confirm call on an intent stored as Cancelled, Succeeded, Processing,
\* RequiresCapture or RequiresMerchantAction never returns the aggregate,
\* issues no store write (address, connector credentials, attempt insert,
\* attempt, intent or customer update), spawns no task of the later waves and
\* leaves every row as it was; once the first wave has joined and customer
\* access has passed, its error is InvalidState.
C1_NotAllowedStatusIsRejectedWithoutWrites ==
    \A p \in Procs :
        (/\ has_fetched_intent(p)
         /\ fetched_intent(p).status \in
              {"Cancelled", "Succeeded", "Processing", "RequiresCapture",
               "RequiresMerchantAction"})
        => /\ writes[p] = {}
           /\ result[p] # "Ok"
           /\ \A t \in Range(Stage2) \cup Range(Stage3) : fut[p][t].st = "unspawned"
           /\ db_payment_intent = fetched_intent(p)
           /\ Len(db_payment_attempts) = 1
           /\ db_payment_attempts[1].version = 0
           /\ db_configs = 0
           /\ db_customer = 0
           /\ (pc[p] = "done" /\ AllOk(p, Stage1) /\ result[p] # "CustomerAccessDenied")
                => result[p] = "InvalidState"

\* A call on a RequiresCapture intent has ended with InvalidState.
C1_RequiresCaptureRejected ==
    \E p \in Procs :
        /\ pc[p] = "done"
        /\ result[p] = "InvalidState"
        /\ has_fetched_intent(p)
        /\ fetched_intent(p).status = "RequiresCapture"
        /\ IsSome(request[p].shipping)
        /\ IsSome(request[p].merchant_connector_details)

\* The declared and the stored surcharge of the drawn input agree in amount
\* and in tax.
sv_declared_equals_stored ==
    LET declared == Unwrap(sv.request.surcharge_details)
        stored == Unwrap(sv.payment_attempt)
    IN  /\ declared.surcharge_amount = Unwrap(stored.surcharge_amount)
        /\ declared.tax_amount = stored.tax_amount

\* The drawn input of C2: a stored surcharge, a declared one, payment-method
\* data, and the validation has run.
sv_stored_and_declared ==
    /\ sv.phase \in {"validated", "resolved"}
    /\ IsSome(Unwrap(sv.payment_attempt).surcharge_amount)
    /\ IsSome(sv.request.surcharge_details)
    /\ sv.request.payment_method_data # "None"

\* C2 as stated: with a surcharge stored on the attempt and a request that
\* declares a surcharge and payment-method data of any variant, the check
\* fails with InvalidRequestData when amount or tax differ and passes when
\* both are equal.
C2_AnyPaymentMethodData ==
    sv_stored_and_declared
    => sv.validation =
         IF sv_declared_equals_stored THEN "Ok" ELSE "InvalidRequestData"

\* C2, amended: the comparison is made when the payment-method data is of a
\* session-token type (a wallet): a differing amount or tax fails with
\* InvalidRequestData, equal figures pass. For every other variant the check
\* passes without comparing.
C2_SessionTokenSurchargeMustMatchStored ==
    sv_stored_and_declared
    => sv.validation =
         IF IsSome(get_payment_method_type_if_session_token_type(
                       sv.request.payment_method_data))
         THEN IF sv_declared_equals_stored THEN "Ok" ELSE "InvalidRequestData"
         ELSE "Ok"

\* A wallet request whose declared amount equals the stored one and whose tax
\* does not has been refused.
C2_TaxMismatchRefused ==
    /\ sv_stored_and_declared
    /\ sv.request.payment_method_data = "Wallet"
    /\ Unwrap(sv.request.surcharge_details).surcharge_amount
         = Unwrap(Unwrap(sv.payment_attempt).surcharge_amount)
    /\ Unwrap(sv.request.surcharge_details).tax_amount
         # Unwrap(sv.payment_attempt).tax_amount
    /\ sv.validation = "InvalidRequestData"

\* The drawn input of C3: no stored surcharge, a declared one, a cache miss,
\* and the validation has run.
sv_declared_on_cache_miss ==
    /\ sv.phase \in {"validated", "resolved"}
    /\ IsNone(Unwrap(sv.payment_attempt).surcharge_amount)
    /\ IsSome(sv.request.surcharge_details)
    /\ sv.redis.kind = "NotFound"

\* The declared surcharge is zero: amount 0 and tax 0 or absent.
sv_declared_zero ==
    LET declared == Unwrap(sv.request.surcharge_details)
    IN  declared.surcharge_amount = 0 /\ UnwrapOr(declared.tax_amount, 0) = 0

\* C3 as stated: with no stored surcharge and a cache miss, a declared zero
\* surcharge passes and a declared nonzero surcharge fails with
\* InvalidRequestData.
C3_AnyRequestOnCacheMiss ==
    sv_declared_on_cache_miss
    => sv.validation = IF sv_declared_zero THEN "Ok" ELSE "InvalidRequestData"

\* C3, amended: the same, for a request whose payment-method data is of a
\* session-token type, the only requests for which the cache is asked.
C3_SessionTokenCacheMiss ==
    (/\ sv_declared_on_cache_miss
     /\ IsSome(get_payment_method_type_if_session_token_type(
                   sv.request.payment_method_data)))
    => sv.validation = IF sv_declared_zero THEN "Ok" ELSE "InvalidRequestData"

\* A wallet request declaring a nonzero surcharge has been refused on a miss.
C3_NonZeroRefusedOnMiss ==
    /\ sv_declared_on_cache_miss
    /\ sv.request.payment_method_data = "Wallet"
    /\ ~sv_declared_zero
    /\ sv.validation = "InvalidRequestData"

\* C4: a confirm call on an intent fetched in RequiresCustomerAction,
\* RequiresMerchantAction, RequiresPaymentMethod or RequiresConfirmation
\* reuses the attempt: it inserts no attempt row, never enters the attempt
\* versioning step, and the attempt of its aggregate carries the identifier
\* the intent named as active before the call.
C4_AwaitingActionReusesAttempt ==
    \A p \in Procs :
        (/\ has_fetched_intent(p)
         /\ fetched_intent(p).status \in
              {"RequiresCustomerAction", "RequiresMerchantAction",
               "RequiresPaymentMethod", "RequiresConfirmation"})
        => /\ "attempt_insert" \notin writes[p]
           /\ "intent_link" \notin writes[p]
           /\ pc[p] \notin {"get_attempt_type", "link_attempt"}
           /\ Len(db_payment_attempts) = 1
           /\ db_payment_intent.active_attempt_id = fetched_intent(p).active_attempt_id
           /\ IsSome(payment_attempt[p])
                => Unwrap(payment_attempt[p]).attempt_id
                     = fetched_intent(p).active_attempt_id

\* A call on a RequiresCustomerAction intent has returned its aggregate.
C4_RequiresCustomerActionConfirmed ==
    \E p \in Procs :
        /\ result[p] = "Ok"
        /\ fetched_intent(p).status = "RequiresCustomerAction"
        /\ Unwrap(payment_attempt[p]).attempt_id = 1
        /\ Len(db_payment_attempts) = 1

\* The attempt an invocation's second wave fetched: the previous attempt.
previous_attempt(p) == Unwrap(fut[p]["payment_attempt_fut"].val)

\* C5: once a retry has inserted a new attempt generation, the new attempt
\* has an identifier of its own; the previous attempt row stays in the store
\* with every field as it was fetched, through the persistence wave and after
\* it; once the link has been made the intent names the new attempt as its
\* active attempt, and the attempt update of the persistence wave is applied
\* to the new row.
C5_RetryKeepsPreviousAttempt ==
    \A p \in Procs :
        "attempt_insert" \in writes[p]
        => LET old == previous_attempt(p)
               new == Unwrap(payment_attempt[p])
           IN  /\ fetched_intent(p).status
                    \notin NotAllowedStatuses \cup AwaitingActionStatuses
               /\ new.attempt_id # old.attempt_id
               /\ Len(db_payment_attempts) = 2
               /\ db_payment_attempts[old.attempt_id] = old
               /\ db_payment_attempts[new.attempt_id].attempt_id = new.attempt_id
               /\ pc[p] \in {"reconcile", "make_pm_data", "ready", "stage3"}
                    => db_payment_intent.active_attempt_id = new.attempt_id
               /\ result[p] = "Ok"
                    => /\ db_payment_intent.active_attempt_id = new.attempt_id
                       /\ db_payment_attempts[new.attempt_id] = new
                       /\ new.status = upd[p].attempt_status

\* A retry of a Failed intent has inserted attempt 2, linked it, and returned
\* its aggregate after a fraud-cancel; attempt 1 is as it was.
C5_RetryConfirmedOnNewAttempt ==
    \E p \in Procs :
        /\ result[p] = "Ok"
        /\ "attempt_insert" \in writes[p]
        /\ fetched_intent(p).status = "Failed"
        /\ upd[p].frm_suggestion = "FrmCancelTransaction"
        /\ Unwrap(payment_attempt[p]).attempt_id = 2
        /\ db_payment_intent.active_attempt_id = 2
        /\ db_payment_attempts[1] = previous_attempt(p)
        /\ db_payment_attempts[2].status = "Failure"

\* The persistence wave of an invocation has been spawned.
in_persistence(p) == upd[p].intent_status # "none"

\* C6: the statuses of the update are fixed by the outcome signal alone,
\* whatever the intent's and the attempt's status before the call: no signal
\* gives (Processing, Pending), fraud-cancel (Failed, Failure), manual review
\* (RequiresMerchantAction, Unresolved); these are the statuses the two row
\* updates store and the statuses of the aggregate returned on success.
C6_TransitionIsFixedBySignal ==
    \A p \in Procs :
        in_persistence(p)
        => LET expected ==
                 CASE upd[p].frm_suggestion = "None" -> << "Processing", "Pending" >>
                   [] upd[p].frm_suggestion = "FrmCancelTransaction" ->
                        << "Failed", "Failure" >>
                   [] upd[p].frm_suggestion = "FrmManualReview" ->
                        << "RequiresMerchantAction", "Unresolved" >>
               intent_update == fut[p]["update_payment_intent_fut"]
               attempt_update == fut[p]["update_payment_attempt_fut"]
           IN  /\ upd[p].intent_status = expected[1]
               /\ upd[p].attempt_status = expected[2]
               /\ intent_update.st = "ok"
                    => /\ Unwrap(intent_update.val).status = expected[1]
                       /\ db_payment_intent.status = expected[1]
               /\ attempt_update.st = "ok"
                    => /\ Unwrap(attempt_update.val).status = expected[2]
                       /\ db_payment_attempts[Unwrap(attempt_update.val).attempt_id].status
                            = expected[2]
               /\ result[p] = "Ok"
                    => /\ Unwrap(payment_intent[p]).status = expected[1]
                       /\ Unwrap(payment_attempt[p]).status = expected[2]

\* A manual review on a RequiresConfirmation intent with a Failure attempt has
\* returned (RequiresMerchantAction, Unresolved).
C6_ManualReviewConfirmed ==
    \E p \in Procs :
        /\ result[p] = "Ok"
        /\ upd[p].frm_suggestion = "FrmManualReview"
        /\ fetched_intent(p).status = "RequiresConfirmation"
        /\ previous_attempt(p).status = "Failure"
        /\ db_payment_intent.status = "RequiresMerchantAction"
        /\ db_payment_attempts[1].status = "Unresolved"

\* C7: the attempt update carries an error code and an error message exactly
\* when the signal is fraud-cancel and a fraud outcome is recorded: the code
\* is the outcome's status, the message its reason. For every other signal,
\* and for fraud-cancel without a fraud outcome, it carries neither, and the
\* stored attempt keeps the error columns it had.
C7_ErrorCopiedFromFraudOutcome ==
    \A p \in Procs :
        in_persistence(p)
        => LET u == upd[p]
               copied == u.frm_suggestion = "FrmCancelTransaction" /\ IsSome(u.frm_message)
               code == Some(to_string(Unwrap(u.frm_message).frm_status))
               message == IF IsSome(Unwrap(u.frm_message).frm_reason)
                          THEN Some(to_string(Unwrap(Unwrap(u.frm_message).frm_reason)))
                          ELSE None
               attempt_update == fut[p]["update_payment_attempt_fut"]
               before == Unwrap(payment_attempt[p])
           IN  /\ copied => u.error_code = Some(code) /\ u.error_message = Some(message)
               /\ ~copied => u.error_code = None /\ u.error_message = None
               /\ (attempt_update.st = "ok" /\ copied)
                    => /\ Unwrap(attempt_update.val).error_code = code
                       /\ Unwrap(attempt_update.val).error_message = message
               /\ (attempt_update.st = "ok" /\ ~copied /\ pc[p] = "stage3")
                    => /\ Unwrap(attempt_update.val).error_code = before.error_code
                       /\ Unwrap(attempt_update.val).error_message = before.error_message

\* A fraud-cancel with reason stolen_card has stored the reason as the
\* attempt's error message and the fraud status as its error code.
C7_StolenCardStored ==
    \E p \in Procs :
        /\ result[p] = "Ok"
        /\ upd[p].frm_suggestion = "FrmCancelTransaction"
        /\ upd[p].frm_message
             = Some([frm_status |-> "Fraud", frm_reason |-> Some("stolen_card")])
        /\ Unwrap(payment_attempt[p]).status = "Failure"
        /\ Unwrap(payment_attempt[p]).error_code = Some(to_string("Fraud"))
        /\ Unwrap(payment_attempt[p]).error_message = Some(to_string("stolen_card"))

\* C8: the surcharge used for persistence is the one the request declares if
\* it declares one, else the one stored on the attempt with a missing tax
\* counted as 0, else none; the capturable amount is the attempt amount plus
\* surcharge plus tax on surcharge when there is such a surcharge, and the
\* plain attempt amount when there is none.
C8_SurchargeAndCapturableAmount ==
    sv.phase = "resolved"
    => LET attempt == Unwrap(sv.payment_attempt)
           declared == sv.request.surcharge_details
           surcharge ==
               IF IsSome(declared) THEN Unwrap(declared).surcharge_amount
               ELSE Unwrap(attempt.surcharge_amount)
           tax ==
               IF IsSome(declared) THEN UnwrapOr(Unwrap(declared).tax_amount, 0)
               ELSE UnwrapOr(attempt.tax_amount, 0)
       IN  IF IsSome(declared) \/ IsSome(attempt.surcharge_amount)
           THEN /\ IsSome(sv.surcharge_details)
                /\ Unwrap(sv.surcharge_details).surcharge_amount = surcharge
                /\ Unwrap(sv.surcharge_details).tax_on_surcharge_amount = tax
                /\ Unwrap(sv.surcharge_details).final_amount
                     = attempt.amount + surcharge + tax
                /\ sv.amount_capturable = attempt.amount + surcharge + tax
           ELSE /\ IsNone(sv.surcharge_details)
                /\ sv.amount_capturable = attempt.amount

\* A request that declares nothing falls back on the stored surcharge, whose
\* tax is missing, and the capturable amount includes the surcharge.
C8_StoredSurchargeUsed ==
    /\ sv.phase = "resolved"
    /\ IsNone(sv.request.surcharge_details)
    /\ Unwrap(sv.payment_attempt).surcharge_amount = Some(MaxSurcharge)
    /\ IsNone(Unwrap(sv.payment_attempt).tax_amount)
    /\ Unwrap(sv.payment_attempt).amount = MaxAmount
    /\ sv.amount_capturable = MaxAmount + MaxSurcharge

\* An invocation has returned its aggregate; the intent row it returned.
confirmed(p) == result[p] = "Ok"
returned_intent(p) == Unwrap(payment_intent[p])

\* Two invocations overlap: each fetched the intent before the other's
\* intent update was applied.
overlapping(p, q) ==
    /\ p # q
    /\ fetched_intent(q).version < returned_intent(p).version
    /\ fetched_intent(p).version < returned_intent(q).version

C10_AllPersistedOrOneError ==
    \A p \in Procs :
        /\ confirmed(p)
             => /\ \A t \in Range(Stage3) : fut[p][t].st = "ok"
                /\ {"attempt_update", "intent_update"} \subseteq writes[p]
                /\ customer_is_updated(upd[p]) <=> "customer_update" \in writes[p]
        /\ pc[p] = "done"
             <=> result[p] \in
                   {"Ok", "PaymentNotFound", "MandateNotFound", "CustomerAccessDenied",
                    "InvalidState", "ClientSecretExpired", "PreconditionFailed",
                    "ValidationError", "InvalidRequestData", "MissingRequiredField",
                    "PaymentMethodNotFound", "InternalServerError"}
        /\ pc[p] # "done" <=> result[p] = "none"

\* Both row updates of an invocation succeeded and its customer update
\* failed: it has ended with the customer update's error.
C10_CustomerFailureFailsConfirm ==
    \E p \in Procs :
        /\ pc[p] = "done"
        /\ fut[p]["update_payment_intent_fut"].st = "ok"
        /\ fut[p]["update_payment_attempt_fut"].st = "ok"
        /\ fut[p]["customer_fut"].st = "err"
        /\ result[p] = "InternalServerError"

\* The errors of the request validations and of the precondition checks.
ValidationAndPreconditionErrors ==
    {"ValidationError", "InvalidRequestData", "MissingRequiredField",
     "InvalidState", "ClientSecretExpired", "PaymentMethodNotFound"}

\* C11 as stated: an invocation that has ended with a validation or
\* precondition error (card data, payment method or token, customer id,
\* currency, surcharge mismatch, missing payment-method data, disallowed
\* status, expired client secret) has issued no store write: no address
\* creation, no connector-credential insert, no attempt insert.
C11_ValidationErrorsPrecedeEveryWrite ==
    \A p \in Procs :
        (pc[p] = "done" /\ result[p] \in ValidationAndPreconditionErrors)
        => writes[p] = {}

\* The waves, where an invocation waits for each, and the waves after each.
Waves ==
    { [tasks |-> Stage1, at |-> "stage1", later |-> Range(Stage2) \cup Range(Stage3)],
      [tasks |-> Stage2, at |-> "stage2", later |-> Range(Stage3)],
      [tasks |-> Stage3, at |-> "stage3", later |-> {}] }

\* The errors of the tasks of a wave that have failed.
failures(p, wave) ==
    {fut[p][t].err : t \in {u \in Range(wave.tasks) : fut[p][u].st = "err"}}

\* C12: when a task of a wave has failed, the invocation is at that wave's
\* join or has ended; if it has ended it has not returned the aggregate and
\* its error is the error of a task of that wave that failed; no task of a
\* later wave is ever spawned; and the results of the sibling tasks are not
\* taken into the aggregate: after the first wave no intent, after the second
\* no attempt, after the third the rows as they were before the updates.
C12_FailedWaveFailsTheCall ==
    \A p \in Procs : \A wave \in Waves :
        failures(p, wave) # {}
        => /\ pc[p] \in {wave.at, "done"}
           /\ pc[p] = "done" => result[p] \in failures(p, wave)
           /\ \A t \in wave.later : fut[p][t].st = "unspawned"
           /\ wave.at = "stage1" => IsNone(payment_intent[p]) /\ IsNone(payment_attempt[p])
           /\ wave.at = "stage2"
                => /\ IsNone(payment_attempt[p])
                   /\ payment_intent[p] = fut[p]["payment_intent_fut"].val
           /\ wave.at = "stage3"
                => /\ fut[p]["update_payment_intent_fut"].st = "ok"
                        => Unwrap(payment_intent[p])
                             # Unwrap(fut[p]["update_payment_intent_fut"].val)
                   /\ fut[p]["update_payment_attempt_fut"].st = "ok"
                        => Unwrap(payment_attempt[p])
                             # Unwrap(fut[p]["update_payment_attempt_fut"].val)

\* The attempt fetch of the second wave failed while the shipping address
\* task succeeded: the call has ended with the fetch's error.
C12_AttemptFetchFailureEndsCall ==
    \E p \in Procs :
        /\ pc[p] = "done"
        /\ fut[p]["payment_attempt_fut"].st = "err"
        /\ fut[p]["shipping_address_fut"].st = "ok"
        /\ result[p] = "PaymentNotFound"
        /\ IsNone(payment_attempt[p])

one_active_attempt ==
    /\ db_payment_intent.active_attempt_id \in 1 .. Len(db_payment_attempts)
    /\ \A i \in 1 .. Len(db_payment_attempts) : db_payment_attempts[i].attempt_id = i

\* An invocation's attempt update has been applied: the row it returned.
attempt_updated(p) == fut[p]["update_payment_attempt_fut"].st = "ok"
updated_attempt(p) == Unwrap(fut[p]["update_payment_attempt_fut"].val)

\* C14 as stated: in every store state the intent names one stored attempt,
\* and when a confirm ends whose persistence wave updated an attempt row,
\* concurrent retries included, that row is the attempt the intent references
\* as active at that moment.
C14_UpdatedAttemptIsActiveAtEnd ==
    [][/\ one_active_attempt
       /\ \A p \in Procs :
            (pc[p] # "done" /\ pc'[p] = "done" /\ attempt_updated(p))
            => db_payment_intent'.active_attempt_id = updated_attempt(p).attempt_id]_vars

\* C14, amended: in every store state the intent names one stored attempt,
\* and the attempt row a confirm's persistence wave updates is the attempt
\* that the intent held by that invocation references as active, as it
\* fetched the intent or as its own versioning step linked it. A concurrent
\* retry may have made another attempt the active one by then.
C14_UpdatedAttemptIsTheOneHeld ==
    /\ one_active_attempt
    /\ \A p \in Procs :
         in_persistence(p)
         => /\ Unwrap(payment_attempt[p]).attempt_id
                 = Unwrap(payment_intent[p]).active_attempt_id
            /\ attempt_updated(p)
                 => /\ updated_attempt(p).attempt_id
                         = Unwrap(payment_intent[p]).active_attempt_id
                    /\ db_payment_attempts[updated_attempt(p).attempt_id].attempt_id
                         = updated_attempt(p).attempt_id

\* A retry has linked attempt 2 and returned its aggregate with attempt 2
\* updated, while the other call, which fetched the same intent, has failed.
C14_RetryUpdatedItsLinkedAttempt ==
    \E p, q \in Procs :
        /\ p # q
        /\ confirmed(p)
        /\ "attempt_insert" \in writes[p]
        /\ updated_attempt(p).attempt_id = 2
        /\ db_payment_intent.active_attempt_id = 2
        /\ pc[q] = "done"
        /\ result[q] = "PaymentNotFound"
        /\ "attempt_insert" \in writes[q]

\* C15: in calls repeated without an address payload no step creates an
\* address row or changes the intent's shipping or billing address id, and an
\* address task that has resolved returns the identifier the intent stores,
\* so every resolution of the same stored identifier returns the same record.
C15_AddressResolutionIsIdempotent ==
    [][/\ db_addresses' = db_addresses
       /\ db_payment_intent'.shipping_address_id = db_payment_intent.shipping_address_id
       /\ db_payment_intent'.billing_address_id = db_payment_intent.billing_address_id
       /\ \A p \in Procs :
            /\ "address" \notin writes'[p]
            /\ fut'[p]["shipping_address_fut"].st = "ok"
                 => Unwrap(fut'[p]["shipping_address_fut"].val)
                      = db_payment_intent.shipping_address_id
            /\ fut'[p]["billing_address_fut"].st = "ok"
                 => Unwrap(fut'[p]["billing_address_fut"].val)
                      = db_payment_intent.billing_address_id]_vars

\* Two calls without an address payload have both returned their aggregate,
\* each having resolved the stored shipping address 1; there is still one
\* address row and the intent still stores address 1.
C15_ResolvedTwiceOneRow ==
    \E p, q \in Procs :
        /\ p # q
        /\ confirmed(p)
        /\ confirmed(q)
        /\ Unwrap(fut[p]["shipping_address_fut"].val) = Some(1)
        /\ Unwrap(fut[q]["shipping_address_fut"].val) = Some(1)
        /\ IsNone(request[p].shipping)
        /\ IsNone(request[q].shipping)
        /\ db_addresses = 1
        /\ db_payment_intent.shipping_address_id = Some(1)

\* C16: a request that declares a surcharge and carries no payment-method
\* data fails the surcharge check with MissingRequiredField, whether or not
\* the attempt stores a surcharge and whatever the session cache would answer
\* (a hit, a miss or an error): the cache is not asked.
C16_DeclaredSurchargeNeedsPaymentMethodData ==
    (/\ sv.phase \in {"validated", "resolved"}
     /\ IsSome(sv.request.surcharge_details)
     /\ sv.request.payment_method_data = "None")
    => /\ sv.validation = "MissingRequiredField"
       /\ ~consults_redis(Unwrap(sv.payment_attempt), sv.request)
       /\ sv.phase # "resolved"

\* A request without payment-method data has been refused although its
\* declared surcharge equals the stored one and the cache is failing.
C16_MissingFieldDespiteEqualSurcharge ==
    /\ sv.phase = "validated"
    /\ sv.request.payment_method_data = "None"
    /\ sv.request.surcharge_details
         = Some([surcharge_amount |-> MaxSurcharge, tax_amount |-> None])
    /\ Unwrap(sv.payment_attempt).surcharge_amount = Some(MaxSurcharge)
    /\ IsNone(Unwrap(sv.payment_attempt).tax_amount)
    /\ sv.redis.kind = "Error"
    /\ sv.validation = "MissingRequiredField"

\* The drawn input of C17: no stored surcharge, a declared one with
\* payment-method data, the cache holds a surcharge, the validation has run.
sv_declared_on_cache_hit ==
    /\ sv.phase \in {"validated", "resolved"}
    /\ IsNone(Unwrap(sv.payment_attempt).surcharge_amount)
    /\ IsSome(sv.request.surcharge_details)
    /\ sv.request.payment_method_data # "None"
    /\ sv.redis.kind = "Ok"

\* The declared figures are the cached ones: the amounts are equal and the
\* declared tax, 0 when absent, is the cached tax.
sv_declared_equals_cached ==
    LET declared == Unwrap(sv.request.surcharge_details)
    IN  /\ declared.surcharge_amount = sv.redis.surcharge_amount
        /\ UnwrapOr(declared.tax_amount, 0) = sv.redis.tax_on_surcharge_amount

\* The cache is never asked for an attempt that stores a surcharge.
sv_cache_only_without_stored ==
    (sv.phase # "off" /\ consults_redis(Unwrap(sv.payment_attempt), sv.request))
    => IsNone(Unwrap(sv.payment_attempt).surcharge_amount)

\* C17 as stated: with no stored surcharge and a surcharge in the cache, the
\* check passes only if the declared figures match the cached ones and
\* otherwise fails with InvalidRequestData; the cache is asked only when the
\* attempt stores no surcharge.
C17_AnyRequestOnCacheHit ==
    /\ sv_declared_on_cache_hit
         => sv.validation =
              IF sv_declared_equals_cached THEN "Ok" ELSE "InvalidRequestData"
    /\ sv_cache_only_without_stored

\* C17, amended: the same, for a request whose payment-method data is of a
\* session-token type; for other payment-method data the check passes
\* whatever the cache holds.
C17_SessionTokenCacheHit ==
    /\ sv_declared_on_cache_hit
         => sv.validation =
              IF IsSome(get_payment_method_type_if_session_token_type(
                            sv.request.payment_method_data))
              THEN IF sv_declared_equals_cached THEN "Ok" ELSE "InvalidRequestData"
              ELSE "Ok"
    /\ sv_cache_only_without_stored

\* A wallet request whose declared surcharge differs from the cached one has
\* been refused.
C17_CachedMismatchRefused ==
    /\ sv_declared_on_cache_hit
    /\ sv.request.payment_method_data = "Wallet"
    /\ ~sv_declared_equals_cached
    /\ sv.validation = "InvalidRequestData"

\* Every task of a wave has returned Ok.
wave_succeeded(p, stage) == \A t \in Range(stage) : fut[p][t].st = "ok"

\* An invocation has spawned a task of a wave.
wave_started(p, stage) == \E t \in Range(stage) : fut[p][t].st # "unspawned"

\* C18: a task of the second wave is spawned only after both tasks of the
\* first wave returned Ok; the attempt is taken into the aggregate, and the
\* versioning and reconciliation steps run, only after all four tasks of the
\* second wave returned Ok; a task of the persistence wave is spawned, and a
\* row or customer update issued, only after both earlier waves succeeded and
\* the surcharge check passed on the attempt in use.
C18_PhasesAreOrdered ==
    \A p \in Procs :
        /\ wave_started(p, Stage2) => wave_succeeded(p, Stage1)
        /\ (\/ IsSome(payment_attempt[p])
            \/ pc[p] \in {"get_attempt_type", "link_attempt", "reconcile", "make_pm_data",
                         "ready", "stage3"}
            \/ {"attempt_insert", "intent_link"} \cap writes[p] # {})
           => wave_succeeded(p, Stage1) /\ wave_succeeded(p, Stage2)
        /\ (\/ wave_started(p, Stage3)
            \/ {"attempt_update", "intent_update", "customer_update"} \cap writes[p] # {})
           => /\ wave_succeeded(p, Stage1)
              /\ wave_succeeded(p, Stage2)
              /\ validate_request_surcharge_details_with_session_surcharge_details(
                     Unwrap(payment_attempt[p]), request[p],
                     UnwrapOr(redis[p], [kind |-> "NotFound"])) = "Ok"
              /\ surcharge_details[p]
                   = get_surcharge_details_from_payment_request_or_payment_attempt(
                         request[p], Unwrap(payment_attempt[p]))

\* A wallet call that declared a surcharge, had it checked against the
\* session cache and created an address has gone through the three waves.
C18_ThreeWavesInOrder ==
    \E p \in Procs :
        /\ confirmed(p)
        /\ request[p].payment_method_data = "Wallet"
        /\ IsSome(request[p].surcharge_details)
        /\ IsSome(redis[p])
        /\ "address" \in writes[p]
        /\ {"attempt_update", "intent_update"} \subseteq writes[p]

\* An invocation's intent update has been applied.
intent_updated(p) == fut[p]["update_payment_intent_fut"].st = "ok"
updated_intent(p) == Unwrap(fut[p]["update_payment_intent_fut"].val)

\* The step is one of invocation p.
step_of(p) == pc'[p] # pc[p] \/ fut'[p] # fut[p]

\* The intent's active attempt as stored.
active_attempt == db_payment_attempts[db_payment_intent.active_attempt_id]

\* Exactly one of an invocation's two row updates has failed.
one_row_update_failed(p) ==
    \/ intent_updated(p) /\ fut[p]["update_payment_attempt_fut"].st = "err"
    \/ attempt_updated(p) /\ fut[p]["update_payment_intent_fut"].st = "err"

\* C19: the two row updates of the persistence wave are applied one by one
\* and nothing undoes one of them: no step of an invocation writes the intent
\* row again once its intent update is applied, nor the attempt row once its
\* attempt update is applied, whether the other update or the customer task
\* failed and whatever the invocation returned; and while no later write has
\* touched it, a row an invocation updated is stored as the update wrote it,
\* also after that invocation returned an error.
C19_NoCompensatingWrite ==
    /\ [][\A p \in Procs :
            step_of(p)
            => /\ intent_updated(p) => db_payment_intent' = db_payment_intent
               /\ attempt_updated(p)
                    => db_payment_attempts'[updated_attempt(p).attempt_id]
                         = db_payment_attempts[updated_attempt(p).attempt_id]]_vars
    /\ [](\A p \in Procs :
            /\ (intent_updated(p)
                /\ db_payment_intent.version = updated_intent(p).version)
               => db_payment_intent = updated_intent(p)
            /\ (attempt_updated(p)
                /\ db_payment_attempts[updated_attempt(p).attempt_id].version
                     = updated_attempt(p).version)
               => db_payment_attempts[updated_attempt(p).attempt_id]
                    = updated_attempt(p))

\* A confirm returned an error with its intent update applied and its attempt
\* update failed: the stored intent is Processing as that update wrote it,
\* its active attempt is the row the call fetched, in its status from before
\* the confirm, and every task of the call has finished.
C19_IntentUpdatedAttemptNot ==
    \E p \in Procs :
        /\ pc[p] = "done"
        /\ ~confirmed(p)
        /\ one_row_update_failed(p)
        /\ intent_updated(p)
        /\ \A t \in Tasks : fut[p][t].st # "running"
        /\ db_payment_intent = updated_intent(p)
        /\ db_payment_intent.status = "Processing"
        /\ active_attempt = previous_attempt(p)
        /\ active_attempt.status # upd[p].attempt_status

\* The attempt fetch of an invocation's second wave has failed.
attempt_fetch_failed(p) == fut[p]["payment_attempt_fut"].st = "err"

\* The address rows an invocation's second wave has created: the task
\* returned, the intent held no address id and the request carried an address.
created_addresses(p) ==
    {Unwrap(Unwrap(fut[p][t.task].val)) :
       t \in {u \in {[task |-> "shipping_address_fut",
                      stored |-> fetched_intent(p).shipping_address_id,
                      given |-> request[p].shipping],
                     [task |-> "billing_address_fut",
                      stored |-> fetched_intent(p).billing_address_id,
                      given |-> request[p].billing]} :
                /\ fut[p][u.task].st = "ok"
                /\ IsNone(u.stored)
                /\ IsSome(u.given)}}

\* C20: when the attempt fetch of the second wave has failed, the address
\* tasks and the credential insert spawned with it are not cancelled: each is
\* running or has returned, also after the call has ended with the fetch's
\* error, and one that is still running can take its step. The call writes
\* nothing but addresses and credentials, so an address row it created is in
\* the store and neither address id of the intent refers to it. No step
\* removes an address row or a credential entry.
C20_SiblingsRunOnAndNothingIsUndone ==
    /\ [](\A p \in Procs :
            attempt_fetch_failed(p)
            => /\ \A t \in Range(Stage2) : fut[p][t].st \in {"running", "ok", "err"}
               /\ fut[p]["shipping_address_fut"].st = "running"
                    => ENABLED shipping_address_fut(p)
               /\ fut[p]["billing_address_fut"].st = "running"
                    => ENABLED billing_address_fut(p)
               /\ fut[p]["config_update_fut"].st = "running"
                    => ENABLED config_update_fut(p)
               /\ writes[p] \subseteq {"address", "config"}
               /\ \A id \in created_addresses(p) :
                    /\ id <= db_addresses
                    /\ db_payment_intent.shipping_address_id # Some(id)
                    /\ db_payment_intent.billing_address_id # Some(id))
    /\ [][db_addresses' >= db_addresses /\ db_configs' >= db_configs]_vars

\* A confirm has returned the attempt fetch's error; its shipping address
\* task has created a row that the intent does not reference, and its billing
\* address task is still running.
C20_OrphanAddressAfterError ==
    \E p \in Procs :
        /\ pc[p] = "done"
        /\ result[p] = "PaymentNotFound"
        /\ attempt_fetch_failed(p)
        /\ fut[p]["shipping_address_fut"].st = "ok"
        /\ fut[p]["billing_address_fut"].st = "running"
        /\ created_addresses(p) # {}
        /\ "address" \in writes[p]
        /\ \A id \in created_addresses(p) :
             /\ id <= db_addresses
             /\ db_payment_intent.shipping_address_id # Some(id)
             /\ db_payment_intent.billing_address_id # Some(id)

\* The invocation has both a customer update payload and a customer record.
payload_and_record(p) == upd[p].updated_customer /\ upd[p].customer

\* C21: once the persistence wave is spawned it has its three tasks. The
\* call issues the customer update exactly when it has both the update
\* payload and the customer record: then the customer task, once returned,
\* has issued it, and the customer row is written exactly when the task
\* returned Ok. With either one absent the customer task never fails, it
\* issues no customer update and the customer row is not written.
C21_CustomerUpdateIffPayloadAndRecord ==
    \A p \in Procs :
        wave_started(p, Stage3)
        => /\ \A t \in Range(Stage3) : fut[p][t].st # "unspawned"
           /\ "customer_update" \in writes[p]
                <=> (payload_and_record(p) /\ fut[p]["customer_fut"].st \in {"ok", "err"})
           /\ db_customer
                = (IF payload_and_record(p) /\ fut[p]["customer_fut"].st = "ok"
                   THEN 1 ELSE 0)
           /\ ~payload_and_record(p) => fut[p]["customer_fut"].st \in {"running", "ok"}

\* A confirm with an update payload but no customer record has succeeded:
\* three tasks joined, no customer update issued, no customer row written.
C21_PayloadWithoutRecordIsNoop ==
    \E p \in Procs :
        /\ confirmed(p)
        /\ upd[p].updated_customer
        /\ ~upd[p].customer
        /\ \A t \in Range(Stage3) : fut[p][t].st = "ok"
        /\ "customer_update" \notin writes[p]
        /\ db_customer = 0

\* The two row updates of the persistence wave: the task, the row the
\* invocation holds, and the row as stored.
row_updates(p) ==
    { [task |-> "update_payment_attempt_fut",
       held |-> Unwrap(payment_attempt[p]),
       stored |-> db_payment_attempts[Unwrap(payment_attempt[p]).attempt_id]],
      [task |-> "update_payment_intent_fut",
       held |-> Unwrap(payment_intent[p]),
       stored |-> db_payment_intent] }

\* C22: a row update of the persistence wave is issued once: a task that has
\* returned is never run again. The step in which it returns is Ok only on a
\* row that still matches the one the invocation holds; on a row that does
\* not, it returns an error and the stored rows are left as they are;
\* PaymentNotFound is returned by the task only in that case, any other
\* failure of the store call being InternalServerError. A call that has
\* ended with a failed row update has not returned the aggregate, and its
\* error is PaymentNotFound unless another task of the wave failed with
\* another error.
C22_FailedRowUpdateIsNotFoundAndNotRetried ==
    /\ [][\A p \in Procs :
            \A t \in {"update_payment_attempt_fut", "update_payment_intent_fut"} :
              /\ fut[p][t].st \in {"ok", "err"} => fut'[p][t] = fut[p][t]
              /\ (fut[p][t].st = "running" /\ fut'[p][t].st # "running")
                 => \A u \in {r \in row_updates(p) : r.task = t} :
                      /\ u.held.version # u.stored.version
                           => /\ fut'[p][t].st = "err"
                              /\ db_payment_intent' = db_payment_intent
                              /\ db_payment_attempts' = db_payment_attempts
                      /\ fut'[p][t].st = "err"
                           => /\ db_payment_intent' = db_payment_intent
                              /\ db_payment_attempts' = db_payment_attempts
                              /\ fut'[p][t].err = "PaymentNotFound"
                                   => u.held.version # u.stored.version
                              /\ fut'[p][t].err \in {"PaymentNotFound",
                                                     "InternalServerError"}]_vars
    /\ [](\A p \in Procs :
            (/\ pc[p] = "done"
             /\ \E t \in {"update_payment_attempt_fut", "update_payment_intent_fut"} :
                  fut[p][t].st = "err")
            => /\ ~confirmed(p)
               /\ result[p] \in failures(p, [tasks |-> Stage3])
               /\ failures(p, [tasks |-> Stage3]) = {"PaymentNotFound"}
                    => result[p] = "PaymentNotFound")

\* A confirm has ended with PaymentNotFound: its attempt update found the row
\* changed by another call, no other task of the wave failed, and the stored
\* attempt is the other call's.
C22_ChangedAttemptRowIsNotFound ==
    \E p \in Procs : \E q \in Procs \ {p} :
        /\ pc[p] = "done"
        /\ result[p] = "PaymentNotFound"
        /\ fut[p]["update_payment_attempt_fut"] = Err("PaymentNotFound")
        /\ fut[p]["update_payment_intent_fut"].st = "ok"
        /\ fut[p]["customer_fut"].st = "ok"
        /\ attempt_updated(q)
        /\ db_payment_attempts[Unwrap(payment_attempt[p]).attempt_id] = updated_attempt(q)
        /\ Unwrap(payment_attempt[p]).version # updated_attempt(q).version

\* The request validate_request was applied to has one of the defects it
\* checks for.
vr_defects ==
    {d \in {"customer", "payment_id", "merchant_id", "payment_method", "mandate"} :
       \/ d = "customer" /\ IsSome(vr.request.customer_id) /\ IsSome(vr.request.customer)
                         /\ vr.request.customer_id # vr.request.customer
       \/ d = "payment_id" /\ IsSome(vr.request.payment_id)
                           /\ \/ Unwrap(vr.request.payment_id).type # "PaymentIntentId"
                              \/ Unwrap(vr.request.payment_id).id = "pay_overlong"
       \/ d = "merchant_id" /\ IsSome(vr.request.merchant_id)
                            /\ Unwrap(vr.request.merchant_id) # vr.merchant_id
       \/ d = "payment_method" /\ vr.request.payment_method_data
                               /\ ~vr.request.payment_method
       \/ d = "mandate" /\ vr.request.mandate_data /\ vr.request.mandate_id}

\* C23: the step that applies validate_request reads and writes no store row,
\* no cache entry and no state of an invocation, whether it accepts the
\* request or not. It accepts exactly the requests without a defect; then
\* the payment id of its result is the id the request gave if it gave one
\* and a generated id otherwise, and requeue is set exactly when the
\* request's retry_action is Requeue.
C23_ValidationTouchesNoStorage ==
    /\ [][vr' # vr
          => UNCHANGED << db_vars, pc, request, fut, payment_intent, payment_attempt,
                          surcharge_details, redis, upd, result, writes >>]_vars
    /\ [](vr.phase = "validated"
          => /\ vr.result = "Ok" <=> vr_defects = {}
             /\ vr.result = "Ok"
                  => /\ vr.payment_id
                          = (IF IsSome(vr.request.payment_id)
                             THEN Some(Unwrap(vr.request.payment_id).id)
                             ELSE Some("pay_generated"))
                     /\ vr.requeue <=> vr.request.retry_action = Some("Requeue")
             /\ vr.result # "Ok" => IsNone(vr.payment_id) /\ ~vr.requeue
             /\ \A p \in Procs : writes[p] = {} /\ IsNone(redis[p])
             /\ db_addresses = 0 /\ db_configs = 0 /\ db_customer = 0
             /\ db_payment_intent.version = 0)

\* A request that gives its payment id and asks to requeue has been accepted
\* with that id and the flag set.
C23_GivenIdKeptAndRequeueSet ==
    /\ vr.phase = "validated"
    /\ vr.result = "Ok"
    /\ vr.request.payment_id = Some([type |-> "PaymentIntentId", id |-> "pay_1"])
    /\ vr.payment_id = Some("pay_1")
    /\ vr.request.retry_action = Some("Requeue")
    /\ vr.requeue

\* The request's value for a field in the form the aggregate keeps it: a
\* serde value for the encoded fields, a string for the return url.
as_kept(f) ==
    IF f = "return_url" THEN << "to_string", << "request", f >> >>
    ELSE IF f \in EncodedFields THEN << "value", << "request", f >> >>
    ELSE << "request", f >>

\* C24: when the reconciliation succeeds, each of order details,
\* setup-future-usage, return url, allowed payment method types, connector
\* metadata, feature metadata, metadata, payment experience, capture method,
\* business sub-label and browser info is the request's value where the
\* request gives one and the stored value where it does not; a stored value
\* is never cleared.
C24_RequestWinsStoredRetained ==
    (rc.phase = "reconciled" /\ rc.result = "Ok")
    => \A f \in MergedFields :
         /\ rc.merged[f] = (IF IsSome(rc.request[f]) THEN Some(as_kept(f))
                            ELSE rc.stored[f])
         /\ IsSome(rc.stored[f]) => IsSome(rc.merged[f])

\* Every field is stored; the request gives order details and a return url
\* but no metadata and no capture method: the first two are the request's,
\* the other two the stored ones.
C24_GivenFieldsReplacedOthersKept ==
    /\ rc.phase = "reconciled"
    /\ rc.result = "Ok"
    /\ \A f \in MergedFields : IsSome(rc.stored[f])
    /\ IsSome(rc.request["order_details"])
    /\ IsSome(rc.request["return_url"])
    /\ IsNone(rc.request["metadata"])
    /\ IsNone(rc.request["capture_method"])
    /\ rc.merged["order_details"] = Some(<< "value", << "request", "order_details" >> >>)
    /\ rc.merged["return_url"] = Some(<< "to_string", << "request", "return_url" >> >>)
    /\ rc.merged["metadata"] = Some(<< "stored", "metadata" >>)
    /\ rc.merged["capture_method"] = Some(<< "stored", "capture_method" >>)

\* The payment link flow has got as far as the return url: the intent and the
\* payment link were found, the status is allowed, the merchant's config and
\* the order details were parsed.
pl_at_return_url ==
    /\ pl.phase = "initiated"
    /\ IsSome(pl.payment_intent)
    /\ IsSome(Unwrap(pl.payment_intent).payment_link_id)
    /\ Unwrap(pl.payment_intent).status \notin PaymentLinkNotAllowedStatuses
    /\ pl.payment_link_found
    /\ pl.merchant_account.payment_link_config # Some("malformed")
    /\ Unwrap(pl.payment_intent).order_details_parsable

\* C25 as stated, read of the confirm: its reconciliation ends with a return
\* url or with MissingRequiredField.
C25_ConfirmHasReturnUrlOrFails ==
    rc.phase = "reconciled"
    => \/ rc.result = "Ok" /\ IsSome(rc.merged["return_url"])
       \/ rc.result = "MissingRequiredField"

\* C25: in the confirm's reconciliation the request's return url wins over
\* the stored one, and with neither the return url stays absent without the
\* confirm failing for it. In the payment link flow the stored intent's
\* return url is used, with none the merchant account's, and with neither
\* the flow fails with MissingRequiredField.
C25_ReturnUrlAtConfirmAndAtPaymentLink ==
    /\ rc.phase = "reconciled"
       => /\ rc.result = "Ok"
          /\ rc.merged["return_url"]
               = (IF IsSome(rc.request["return_url"])
                  THEN Some(<< "to_string", << "request", "return_url" >> >>)
                  ELSE rc.stored["return_url"])
    /\ pl_at_return_url
       => LET intent == Unwrap(pl.payment_intent)
              merchant == pl.merchant_account
          IN  /\ (IsSome(intent.return_url) /\ pl.result = "Ok")
                   => pl.return_url = intent.return_url
              /\ (/\ IsNone(intent.return_url)
                  /\ IsSome(merchant.return_url)
                  /\ pl.result = "Ok")
                   => pl.return_url = merchant.return_url
              /\ (IsNone(intent.return_url) /\ IsNone(merchant.return_url))
                   => pl.result = "MissingRequiredField" /\ IsNone(pl.return_url)
              /\ (IsSome(intent.return_url) \/ IsSome(merchant.return_url))
                   => (pl.result = "Ok"
                         <=> /\ IsSome(merchant.publishable_key)
                             /\ IsSome(intent.currency)
                             /\ IsSome(intent.client_secret))

\* A confirm without a return url in the request or in the intent has been
\* reconciled without one, and a payment link flow without one in the intent
\* or the merchant account has failed with MissingRequiredField although its
\* other required fields were there.
C25_NoReturnUrlAnywhere ==
    /\ rc.phase = "reconciled"
    /\ IsNone(rc.request["return_url"])
    /\ IsNone(rc.stored["return_url"])
    /\ rc.result = "Ok"
    /\ IsNone(rc.merged["return_url"])
    /\ pl_at_return_url
    /\ IsNone(Unwrap(pl.payment_intent).return_url)
    /\ IsNone(pl.merchant_account.return_url)
    /\ IsSome(pl.merchant_account.publishable_key)
    /\ IsSome(Unwrap(pl.payment_intent).currency)
    /\ IsSome(Unwrap(pl.payment_intent).client_secret)
    /\ pl.result = "MissingRequiredField"

\* An invocation has issued an update of the persistence wave.
persistence_issued(p) ==
    \/ wave_started(p, Stage3)
    \/ {"attempt_update", "intent_update", "customer_update"} \cap writes[p] # {}

\* The reconciled request asks for setup-future-usage and neither the intent
\* nor the request's customer details give a customer id.
rc_customer_id_missing ==
    /\ rc.phase = "reconciled"
    /\ IsSome(rc.request["setup_future_usage"])
    /\ IsNone(rc.intent_customer_id)
    /\ IsNone(rc.request_customer_id)

\* The conversions and validations the reconciliation runs before it asks for
\* the customer id have passed.
rc_passed_before_customer_id ==
    /\ rc.card_data_valid
    /\ IsSome(rc.currency)
    /\ \/ rc.mandate_type = Some("RecurringMandate")
       \/ IsSome(rc.mandate_token) \/ IsSome(rc.payment_token)
       \/ (rc.payment_method_data /\ rc.payment_method)

\* C26: a call whose request asks for setup-future-usage with no customer id
\* in the intent or in the request's customer details ends at the
\* reconciliation with an error, never returns the aggregate and issues no
\* update of the persistence wave; the error is InvalidRequest whenever the
\* checks before it passed. A call that asks for setup-future-usage and gets
\* past the reconciliation has a customer id from one of the two.
C26_SetupFutureUsageNeedsCustomerId ==
    \A p \in Procs :
        pc[p] # "idle"
        => /\ rc_customer_id_missing
                => /\ pc[p] = "done"
                   /\ ~confirmed(p)
                   /\ rc.result # "Ok"
                   /\ result[p] = rc.result
                   /\ rc_passed_before_customer_id => result[p] = "InvalidRequest"
                   /\ ~persistence_issued(p)
           /\ (/\ rc.phase = "reconciled"
               /\ IsSome(rc.request["setup_future_usage"])
               /\ (rc.result = "Ok" \/ persistence_issued(p) \/ confirmed(p)))
                => IsSome(rc.intent_customer_id) \/ IsSome(rc.request_customer_id)

\* A call with card data, a payment method and a currency, asking for
\* setup-future-usage without a customer id anywhere, has ended with
\* InvalidRequest after its second wave and without a persistence update.
C26_NoCustomerIdRejected ==
    \E p \in Procs :
        /\ pc[p] = "done"
        /\ rc_customer_id_missing
        /\ rc_passed_before_customer_id
        /\ result[p] = "InvalidRequest"
        /\ wave_succeeded(p, Stage2)
        /\ ~persistence_issued(p)

\* The reconciled request gives neither both payment-method fields nor a
\* token, from the mandate resolution or stored on the attempt, and is not
\* of a recurring mandate.
rc_no_pm_nor_token ==
    /\ rc.phase = "reconciled"
    /\ ~(rc.payment_method /\ rc.payment_method_data)
    /\ IsNone(rc.mandate_token)
    /\ IsNone(rc.payment_token)
    /\ rc.mandate_type # Some("RecurringMandate")

\* The conversions and validations the reconciliation runs before it asks for
\* a payment method or a token have passed.
rc_passed_before_pm_or_token ==
    /\ rc.card_data_valid
    /\ ~(IsSome(rc.request["order_details"]) /\ "order_details" \in rc.unencodable)
    /\ ~(/\ IsSome(or(rc.request["browser_info"], rc.stored["browser_info"]))
         /\ "browser_info" \in rc.unencodable)

\* The call has got past the payment-method step.
past_make_pm_data(p) ==
    pc[p] \in {"ready", "stage3"} \/ persistence_issued(p) \/ confirmed(p)

\* C27: the token of a reconciled call is the one of the mandate resolution,
\* else the one stored on the attempt. A call whose request gives neither
\* the payment-method fields nor such a token, for a mandate type that needs
\* them, ends at the reconciliation with an error (PaymentMethodNotFound
\* when the checks before it passed), returns no aggregate and issues no
\* update of the persistence wave. A call whose payment-method data resolve
\* to nothing at make_pm_data ends with PaymentMethodNotFound, and only a
\* call with a payment method or a token and with payment-method data gets
\* past that step.
C27_PaymentMethodOrTokenRequired ==
    \A p \in Procs :
        pc[p] # "idle"
        => /\ (rc.phase = "reconciled" /\ rc.result = "Ok")
                => rc.token = IF IsSome(rc.mandate_token)
                              THEN rc.mandate_token ELSE rc.payment_token
           /\ rc_no_pm_nor_token
                => /\ pc[p] = "done"
                   /\ ~confirmed(p)
                   /\ rc.result # "Ok"
                   /\ result[p] = rc.result
                   /\ rc_passed_before_pm_or_token
                        => result[p] = "PaymentMethodNotFound"
                   /\ pm_data[p] = None
                   /\ ~persistence_issued(p)
           /\ pm_data[p] = Some(None)
                => /\ pc[p] = "done"
                   /\ result[p] = "PaymentMethodNotFound"
                   /\ ~confirmed(p)
                   /\ ~persistence_issued(p)
           /\ past_make_pm_data(p)
                => /\ rc.phase = "reconciled"
                   /\ rc.result = "Ok"
                   /\ \/ rc.payment_method /\ rc.payment_method_data
                      \/ IsSome(rc.token)
                      \/ rc.mandate_type = Some("RecurringMandate")
                   /\ IsSome(pm_data[p])
                   /\ IsSome(Unwrap(pm_data[p]))

\* C27 witness: a request without payment-method fields got past the
\* reconciliation on the token stored on the attempt, the mandate resolution
\* giving none, and the call ended with PaymentMethodNotFound because
\* make_pm_data resolved no payment-method data.
C27_StoredTokenThenNoPaymentMethodData ==
    \E p \in Procs :
        /\ rc.phase = "reconciled"
        /\ ~rc.payment_method
        /\ ~rc.payment_method_data
        /\ IsNone(rc.mandate_token)
        /\ rc.token = Some("token_attempt")
        /\ pm_data[p] = Some(None)
        /\ result[p] = "PaymentMethodNotFound"

\* A call without payment method or token was rejected at the reconciliation.
C27_NoPaymentMethodNorTokenRejected ==
    \E p \in Procs :
        /\ rc_no_pm_nor_token
        /\ rc_passed_before_pm_or_token
        /\ result[p] = "PaymentMethodNotFound"

\* The conversions and validations the reconciliation runs before it asks for
\* the currency of the attempt have passed.
rc_passed_before_currency ==
    /\ rc_passed_before_pm_or_token
    /\ validate_pm_or_token_given(
           rc.payment_method, rc.payment_method_data, rc.payment_method_type,
           rc.mandate_type,
           IF IsSome(rc.mandate_token) THEN rc.mandate_token ELSE rc.payment_token)
         = "Ok"

\* The amount and the currency of the row are those of the attempt the call
\* has in use.
pinned_to_attempt_in_use(row, p) ==
    /\ row.amount = Unwrap(payment_attempt[p]).amount
    /\ row.currency = Unwrap(payment_attempt[p]).currency
    /\ IsSome(row.currency)

\* In every state: the update of a started persistence wave carries the
\* amount and the currency of the attempt in use; after a confirmed call the
\* stored intent and its active attempt have the same amount and currency,
\* those the update carried; a call whose attempt has no currency ends at the
\* reconciliation, with MissingRequiredField when the checks before it
\* passed, and issues no update of the persistence wave.
C28_PinnedInEveryState ==
    \A p \in Procs :
        /\ pc[p] = "stage3"
             => /\ upd[p].amount = Unwrap(payment_attempt[p]).amount
                /\ Some(upd[p].currency) = Unwrap(payment_attempt[p]).currency
        /\ confirmed(p)
             => LET attempt == db_payment_attempts[db_payment_intent.active_attempt_id]
                IN  /\ db_payment_intent.amount = attempt.amount
                    /\ db_payment_intent.currency = attempt.currency
                    /\ attempt.amount = upd[p].amount
                    /\ attempt.currency = Some(upd[p].currency)
        /\ (IsSome(payment_attempt[p]) /\ IsNone(Unwrap(payment_attempt[p]).currency))
             => /\ ~persistence_issued(p)
                /\ ~confirmed(p)
                /\ pc[p] \notin {"make_pm_data", "ready", "stage3"}
                /\ rc.phase = "reconciled"
                     => /\ pc[p] = "done"
                        /\ result[p] = rc.result
                        /\ rc.result # "Ok"
                        /\ rc_passed_before_currency
                             => result[p] = "MissingRequiredField"

\* In every step: a row update of the persistence wave that is applied
\* leaves in the stored attempt, and in the stored intent, the amount and the
\* currency of the attempt the call has in use.
C28_PinnedInEveryStep ==
    \A p \in Procs :
        /\ (/\ fut[p]["update_payment_attempt_fut"].st = "running"
            /\ fut'[p]["update_payment_attempt_fut"].st = "ok")
             => pinned_to_attempt_in_use(
                    db_payment_attempts'[Unwrap(payment_attempt[p]).attempt_id], p)
        /\ (/\ fut[p]["update_payment_intent_fut"].st = "running"
            /\ fut'[p]["update_payment_intent_fut"].st = "ok")
             => pinned_to_attempt_in_use(db_payment_intent', p)

\* C28: amount and currency are pinned from the attempt in use after
\* versioning: both row updates write that attempt's amount and currency, so
\* that after a confirmed call the stored intent's amount and currency are
\* its active attempt's, and an attempt without a currency ends the call
\* with a missing-required-field error before any update of the persistence
\* wave.
C28_AmountAndCurrencyPinnedFromAttempt ==
    /\ []C28_PinnedInEveryState
    /\ [][C28_PinnedInEveryStep]_vars

\* C28 witness: a confirmed call on an attempt with a stored surcharge: the
\* capturable amount includes the surcharge, the amount written to the
\* intent and to its active attempt is the attempt's own.
C28_ConfirmedWithSurchargeKeepsAmount ==
    \E p \in Procs :
        /\ confirmed(p)
        /\ upd[p].amount_capturable # upd[p].amount
        /\ db_payment_intent.amount = upd[p].amount
        /\ db_payment_attempts[db_payment_intent.active_attempt_id].amount = upd[p].amount
        /\ db_payment_intent.currency = Some("USD")

\* A call on an attempt without a currency ended with MissingRequiredField.
C28_NoCurrencyRejected ==
    \E p \in Procs :
        /\ IsSome(payment_attempt[p])
        /\ IsNone(Unwrap(payment_attempt[p]).currency)
        /\ rc.phase = "reconciled"
        /\ result[p] = "MissingRequiredField"

\* The validation has run and has asked the session cache.
sv_cache_asked ==
    /\ sv.phase \in {"validated", "resolved"}
    /\ consults_redis(Unwrap(sv.payment_attempt), sv.request)

\* C29: of what the session cache answers the surcharge check, not-found and
\* failure are told apart. On not-found the check passes exactly when the
\* declared surcharge is zero, fails with InvalidRequestData otherwise, and
\* never with an internal error. On any other cache error the check fails
\* with InternalServerError whatever surcharge is declared, zero included,
\* and no surcharge is resolved. The check fails with InternalServerError
\* only on such a cache error.
C29_CacheMissIsNotCacheFailure ==
    /\ (sv_cache_asked /\ sv.redis.kind = "NotFound")
         => sv.validation = IF sv_declared_zero THEN "Ok" ELSE "InvalidRequestData"
    /\ (sv_cache_asked /\ sv.redis.kind \notin {"Ok", "NotFound"})
         => /\ sv.validation = "InternalServerError"
            /\ sv.phase # "resolved"
    /\ sv.validation = "InternalServerError"
         => sv_cache_asked /\ sv.redis.kind \notin {"Ok", "NotFound"}

\* C29 witness: the cache failed on a request that declares a zero surcharge
\* and the check ended with InternalServerError.
C29_ZeroSurchargeFailsOnCacheFailure ==
    /\ sv_cache_asked
    /\ sv.redis.kind = "Error"
    /\ sv_declared_zero
    /\ sv.validation = "InternalServerError"

\* The cache had no entry for a request that declares a zero surcharge and
\* the check passed.
C29_ZeroSurchargePassesOnCacheMiss ==
    /\ sv_cache_asked
    /\ sv.redis.kind = "NotFound"
    /\ sv_declared_zero
    /\ sv.phase = "resolved"

\* A task of a wave of the call has failed while another task of the same
\* wave is still running, the call being at the join of that wave.
failed_with_running_sibling(p) ==
    \E w \in {[at |-> "stage1", tasks |-> Stage1], [at |-> "stage2", tasks |-> Stage2],
              [at |-> "stage3", tasks |-> Stage3]} :
        /\ pc[p] = w.at
        /\ \E t \in Range(w.tasks), u \in Range(w.tasks) :
             /\ fut[p][t].st = "err"
             /\ fut[p][u].st = "running"

\* The call has ended: with the aggregate carrying both updated rows, or
\* with an error.
terminated(p) ==
    /\ pc[p] = "done"
    /\ result[p] # "none"
    /\ confirmed(p)
         => /\ intent_updated(p)
            /\ payment_intent[p] = Some(updated_intent(p))
            /\ fut[p]["update_payment_attempt_fut"].st = "ok"
            /\ payment_attempt[p] = fut[p]["update_payment_attempt_fut"].val

\* C30: with store and cache calls that return and tasks that are scheduled
\* fairly, every call that has arrived ends, with the updated aggregate or
\* with an error; a call at a join with a failed task and a sibling still
\* running ends with an error, whether or not the sibling ever returns
\* before.
C30_EveryConfirmTerminates ==
    \A p \in Procs :
        /\ (pc[p] # "idle") ~> terminated(p)
        /\ failed_with_running_sibling(p) ~> (terminated(p) /\ ~confirmed(p))

\* C30 witness: a call has ended with the error of a failed task while a
\* sibling of that task is still running.
C30_EndedWhileSiblingStillRuns ==
    \E p \in Procs :
        /\ terminated(p)
        /\ ~confirmed(p)
        /\ \E stage \in {Stage1, Stage2, Stage3} :
             \E t \in Range(stage), u \in Range(stage) :
               /\ fut[p][t].st = "err"
               /\ result[p] = fut[p][t].err
               /\ fut[p][u].st = "running"

\* The request's payment-method data is of a session-token payment method
\* type.
sv_session_token_data ==
    IsSome(get_payment_method_type_if_session_token_type(sv.request.payment_method_data))

\* The validation has run on a request that declares a surcharge with
\* payment-method data that is not of a session-token type.
sv_declared_with_other_data ==
    /\ sv.phase \in {"validated", "resolved"}
    /\ IsSome(sv.request.surcharge_details)
    /\ sv.request.payment_method_data # "None"
    /\ ~sv_session_token_data

\* The capturable amount made of the attempt's amount and the declared
\* surcharge and tax.
sv_capturable_of_declared ==
    LET declared == Unwrap(sv.request.surcharge_details)
    IN  Unwrap(sv.payment_attempt).amount + declared.surcharge_amount
          + UnwrapOr(declared.tax_amount, 0)

\* C31: the declared surcharge is compared with the stored or the cached one
\* only for payment-method data of a session-token type: the cache is asked,
\* and the check fails on a mismatch or on a cache error, for such data only.
\* For any other payment-method data a declared surcharge passes whatever the
\* attempt stores and the cache holds, and the resolved surcharge and the
\* capturable amount are then made of the declared figures.
C31_CrossCheckOnlyForSessionTokenData ==
    /\ (sv.phase # "off" /\ consults_redis(Unwrap(sv.payment_attempt), sv.request))
         => sv_session_token_data
    /\ sv.validation \in {"InvalidRequestData", "InternalServerError"}
         => sv_session_token_data
    /\ sv_declared_with_other_data => sv.validation = "Ok"
    /\ (sv_declared_with_other_data /\ sv.phase = "resolved")
         => LET declared == Unwrap(sv.request.surcharge_details)
                resolved == Unwrap(sv.surcharge_details)
            IN  /\ IsSome(sv.surcharge_details)
                /\ resolved.surcharge_amount = declared.surcharge_amount
                /\ resolved.tax_on_surcharge_amount = UnwrapOr(declared.tax_amount, 0)
                /\ resolved.final_amount = sv_capturable_of_declared
                /\ sv.amount_capturable = sv_capturable_of_declared

\* C31 witness: a card request declares a surcharge other than the one stored
\* on the attempt, the check passed, and the capturable amount includes the
\* declared surcharge, not the stored one.
C31_DifferingSurchargeOfCardUsed ==
    /\ sv_declared_with_other_data
    /\ sv.phase = "resolved"
    /\ IsSome(Unwrap(sv.payment_attempt).surcharge_amount)
    /\ Unwrap(sv.request.surcharge_details).surcharge_amount
         # Unwrap(Unwrap(sv.payment_attempt).surcharge_amount)
    /\ sv.amount_capturable = sv_capturable_of_declared
    /\ sv.amount_capturable
         # Unwrap(sv.payment_attempt).amount
             + Unwrap(Unwrap(sv.payment_attempt).surcharge_amount)
             + UnwrapOr(Unwrap(sv.payment_attempt).tax_amount, 0)

\* Call q is a further confirm of the payment that call p confirmed, with no
\* other operation in between: the intent q fetched is the row p persisted.
confirmed_again(p, q) ==
    /\ p # q
    /\ confirmed(p)
    /\ has_fetched_intent(q)
    /\ fetched_intent(q) = updated_intent(p)

\* The statuses a successful confirm leaves on the intent.
ConfirmedStatuses == {"Processing", "Failed", "RequiresMerchantAction"}

\* In every state: a confirmed call persisted the intent with one of the
\* three statuses of the transition; a further confirm that found Processing
\* or RequiresMerchantAction spawns no second wave, writes nothing and ends
\* without the aggregate, with InvalidState unless customer access or the
\* mandate resolution failed before the status gate; a further confirm is
\* past the status gate only on Failed, left by a fraud cancel.
C32_GateAfterConfirm ==
    \A p \in Procs :
        /\ confirmed(p)
             => /\ updated_intent(p).status = upd[p].intent_status
                /\ updated_intent(p).status \in ConfirmedStatuses
        /\ \A q \in Procs :
             confirmed_again(p, q)
             => /\ fetched_intent(q).status \in {"Processing", "RequiresMerchantAction"}
                     => /\ pc[q] \in {"stage1", "done"}
                        /\ ~wave_started(q, Stage2)
                        /\ writes[q] = {}
                        /\ ~confirmed(q)
                        /\ pc[q] = "done"
                             => \/ result[q] = "InvalidState"
                                \/ result[q] = "CustomerAccessDenied"
                                \/ fut[q]["mandate_details_fut"].st = "err"
                /\ (wave_started(q, Stage2) \/ IsSome(payment_attempt[q]))
                     => /\ fetched_intent(q).status = "Failed"
                        /\ upd[p].frm_suggestion = "FrmCancelTransaction"
                /\ fetched_intent(q).status = "Failed" => result[q] # "InvalidState"

\* In every step: a further confirm admitted on Failed leaves the join of
\* its second wave for get_attempt_type, the attempt-versioning branch, and
\* never for the reconciliation directly, as the attempt-reuse branch does.
C32_VersioningAfterFailed ==
    \A p, q \in Procs :
        (/\ confirmed_again(p, q)
         /\ pc[q] = "stage2"
         /\ pc'[q] \notin {"stage2", "done"})
        => /\ pc'[q] = "get_attempt_type"
           /\ Unwrap(payment_intent[q]).status = "Failed"
           /\ Unwrap(payment_intent[q]).status \notin AwaitingActionStatuses

\* C32: after a successful confirm the persisted intent status is Processing,
\* Failed or RequiresMerchantAction; a further confirm of the same payment
\* with nothing in between is rejected by the status gate after Processing
\* and RequiresMerchantAction, and admitted only after Failed, where it takes
\* the attempt-versioning branch and not the attempt-reuse branch.
C32_FurtherConfirmOnlyAfterFailed ==
    /\ []C32_GateAfterConfirm
    /\ [][C32_VersioningAfterFailed]_vars

\* C32 witness: a further confirm after a fraud-cancelled one has gone
\* through get_attempt_type and inserted a new attempt generation.
C32_RetriedAfterFraudCancel ==
    \E p, q \in Procs :
        /\ confirmed_again(p, q)
        /\ upd[p].frm_suggestion = "FrmCancelTransaction"
        /\ fetched_intent(q).status = "Failed"
        /\ "attempt_insert" \in writes[q]

\* A further confirm after a manual review was rejected by the status gate.
C32_RejectedAfterManualReview ==
    \E p, q \in Procs :
        /\ confirmed_again(p, q)
        /\ fetched_intent(q).status = "RequiresMerchantAction"
        /\ result[q] = "InvalidState"

\* The step is the attempt-reuse branch of call p: from the join of the
\* second wave straight to the reconciliation, the fetched attempt kept.
attempt_reuse_step(p) ==
    /\ pc[p] = "stage2"
    /\ pc'[p] = "reconcile"

\* The statuses with which the attempt-reuse branch is entered.
AttemptReuseStatuses ==
    {"RequiresCustomerAction", "RequiresPaymentMethod", "RequiresConfirmation"}

\* C33: the attempt-reuse branch is entered only with the intent status
\* RequiresCustomerAction, RequiresPaymentMethod or RequiresConfirmation,
\* never with RequiresMerchantAction, which the branch lists: a call that
\* fetched an intent in RequiresMerchantAction is stopped at the status gate
\* before the second wave is spawned. A call with one of the three statuses
\* at the join of a second wave that succeeded can enter the branch.
C33_ReuseNeverWithRequiresMerchantAction ==
    /\ "RequiresMerchantAction" \in AwaitingActionStatuses
    /\ [][\A p \in Procs :
            /\ attempt_reuse_step(p)
                 => /\ Unwrap(payment_intent[p]).status \in AttemptReuseStatuses
                    /\ Unwrap(payment_intent[p]).status = fetched_intent(p).status
                    /\ payment_attempt'[p] = fut[p]["payment_attempt_fut"].val
            /\ (/\ pc[p] = "stage2"
                /\ AllOk(p, Stage2)
                /\ Unwrap(payment_intent[p]).status \in AttemptReuseStatuses)
                 => ENABLED stage2_join_same_attempt(p)]_vars
    /\ [](\A p \in Procs :
            (has_fetched_intent(p)
             /\ fetched_intent(p).status = "RequiresMerchantAction")
            => /\ pc[p] \in {"stage1", "done"}
               /\ ~wave_started(p, Stage2)
               /\ IsNone(payment_attempt[p])
               /\ ~confirmed(p))

\* C33 witness: a call on an intent in RequiresCustomerAction has kept the
\* fetched attempt through the attempt-reuse branch and has been confirmed.
C33_ReusedOnRequiresCustomerAction ==
    \E p \in Procs :
        /\ confirmed(p)
        /\ fetched_intent(p).status = "RequiresCustomerAction"
        /\ writes[p] \cap {"attempt_insert", "intent_link"} = {}
        /\ updated_attempt(p).attempt_id = previous_attempt(p).attempt_id

\* The same on RequiresPaymentMethod.
C33_ReusedOnRequiresPaymentMethod ==
    \E p \in Procs :
        /\ confirmed(p)
        /\ fetched_intent(p).status = "RequiresPaymentMethod"
        /\ writes[p] \cap {"attempt_insert", "intent_link"} = {}

\* The same on RequiresConfirmation.
C33_ReusedOnRequiresConfirmation ==
    \E p \in Procs :
        /\ confirmed(p)
        /\ fetched_intent(p).status = "RequiresConfirmation"
        /\ writes[p] \cap {"attempt_insert", "intent_link"} = {}

\* A call on an intent in RequiresMerchantAction ended at the status gate.
C33_RequiresMerchantActionStoppedAtGate ==
    \E p \in Procs :
        /\ has_fetched_intent(p)
        /\ fetched_intent(p).status = "RequiresMerchantAction"
        /\ result[p] = "InvalidState"

====
